---- MODULE Spec2Model ----
(***************************************************************************)
(* A state-machine model of the pseudoterminal layer of obsidian-terminal: *)
(*   - RefPsuedoterminal, the reference-counted session wrapper            *)
(*     (src/sources/terminal/pseudoterminal.ts, lines 100-150);            *)
(*   - XtermTerminalEmulator, the display-surface adapter: its debounced   *)
(*     resize in both versions of the file and its close()                 *)
(*     (src/unnamed/part_005, src/unnamed/part_006 lines 181-207);         *)
(*   - WindowsPseudoterminal, its start-up and its exit-code recovery      *)
(*     through a temp file (pseudoterminal.ts, lines 656-868);             *)
(*   - PseudoPseudoterminal with TextPseudoterminal and                    *)
(*     DeveloperConsolePseudoterminal: pipe, kill and exit, the session    *)
(*     lock and the sections it guards (pseudoterminal.ts, lines 152-620), *)
(*     and the evaluation of entered code with the console calls it makes  *)
(*     (pseudoterminal.ts, lines 407-514; src/sources/patch.ts), and the   *)
(*     editor records the redraws of syncBuffer update (lines 516-619);    *)
(*   - UnixPseudoterminal: the spawn, pipe() with its listeners and        *)
(*     resize() (pseudoterminal.ts, lines 870-957);                        *)
(*   - the streams of WindowsPseudoterminal: the resizer's stdin with the  *)
(*     process id line and the watchdog, resize() and pipe()               *)
(*     (pseudoterminal.ts, lines 675-788 and 836-867);                     *)
(*   - SettingTab, the settings tab: the hide-status-bar dropdown and the  *)
(*     two notice-timeout fields with their reset buttons, in the three    *)
(*     versions of the tab (src/sources/settings.ts, lines 153-202 and     *)
(*     274-357; src/unnamed/part_004; src/unnamed/part_003).               *)
(* Each component has its own specification (SpecRef, ...); the variables  *)
(* of the other components stay at their initial values there.             *)
(***************************************************************************)
EXTENDS Integers, Sequences, FiniteSets, TLC

(***************************************************************************)
(* Bounds of the model.                                                    *)
(***************************************************************************)
\* Wrappers that can exist at once: the original plus MaxWrappers - 1 dups.
MaxWrappers == 3
\* kill() calls in one run, over all the wrappers.
MaxKillCalls == 3
\* Adapter resize() calls in one run.
MaxResizeCalls == 3
\* Adapter close() calls in one run.
MaxCloseCalls == 3
\* Acquisitions of the session lock attempted in one run.
MaxTasks == 3
\* The same for a run on one surface that fills and walks the history.
MaxHistTasks == 8
\* MAX_LOCK_PENDING of magic.js, the cap of the lock's queue, scaled down.
MAX_LOCK_PENDING == 1
\* Acquisitions of the session lock in a run that evaluates entered code.
MaxEvalTasks == 6
\* pipe() calls and resize() calls on a Unix or Windows session.
MaxUnixCalls == 2
\* Writes to the streams of a Unix session's process.
MaxUnixWrites == 3
\* Lines written to the stdin of a Windows session's resizer.
MaxWinLines == 3
\* Chunks a pipe() call of a Windows session receives.
MaxChunks == 2
\* Characters in the edit buffer while redraws are followed per surface.
MaxRenderText == 3

(***************************************************************************)
(* Program constants.                                                      *)
(***************************************************************************)
\* EXIT_SUCCESS of magic.js, the synthetic success code.
EXIT_SUCCESS == 0

(***************************************************************************)
(* State.                                                                  *)
(***************************************************************************)
\* RefPsuedoterminal: the counter cell #ref[0], the wrappers made so far,
\* each wrapper's #exit future, the delegate's onExit future, the calls of
\* delegate.kill(), and the continuations waiting in the microtask queue.
VARIABLES ref, nWrappers, wExit, wPropagated, pendRes, dExit, dKills, opLog

refVars == <<ref, nWrappers, wExit, wPropagated, pendRes, dExit, dKills, opLog>>

\* XtermTerminalEmulator: the #pty future, which version of the resize code
\* runs, the debouncer (timer, latest arguments), the list of waiting
\* promises, the resize() calls made, the debounce firings, the calls of the
\* session's resize and the surface's geometry.
VARIABLES pty, variant, timerSet, dbArgs, plist, rq, firings, invocations,
          termDims

rszVars == <<variant, timerSet, dbArgs, plist, rq, firings, invocations,
             termDims>>

\* XtermTerminalEmulator.close(): the shell process, the session's exit
\* future, the #exited flag, the surface, the close() calls and the calls of
\* shell.kill().
VARIABLES shellAlive, exitSettled, adExited, disposed, closeCalls, shellKills

closeVars == <<shellAlive, exitSettled, adExited, disposed, closeCalls,
               shellKills>>

\* WindowsPseudoterminal: where its start-up or exit handling stands, the
\* resizer helper, the temp file, the calls of codeTmp.cleanup() and what had
\* happened when cleanup was called, the exit event's (code, signal), what
\* reading the temp file gave, the onExit future and the warnings logged.
VARIABLES winPc, winPython, winResizer, winTmp, cleanupCalls, cleanupAt,
          winCon, winSig, winReadOk, winFile, winExit, winWarns

winVars == <<winPc, winPython, winResizer, winTmp, cleanupCalls, cleanupAt,
             winCon, winSig, winReadOk, winFile, winExit, winWarns>>

\* PseudoPseudoterminal (text or developer console): which of the two the
\* session is, whether its #exit future is resolved, the exited
\* flag, whether the exit's teardown has run, the attached surfaces, the
\* surfaces with the session's disposer addons, with live input handlers,
\* disposed, and the last pipe() call with whether it threw; budget is the
\* number of lock acquisitions a run may attempt.
VARIABLES sessKind, budget, sExit, exited, tornDown, terminals, addons,
          handlers, tDisposed, lastPipe

sessVars == <<sessKind, budget, sExit, exited, tornDown, terminals, addons,
              handlers, tDisposed, lastPipe>>

\* DeveloperConsolePseudoterminal: the log listener, the editor map, the
\* block and resizing flags of each pipe() call, the lock (the section that
\* holds it and the queue), where the running section stands (its stage, the
\* writing flag, the argument of its buffer operation, the redraw started by
\* the write's continuation, the redraws in flight), the edit buffer, the
\* history and its index, and the acquisitions attempted, failed and started.
VARIABLES listening, editors, block, resizing, lockHolder, lockQueue,
          csStage, csWriting, csArg, csThen, syncs, buffer, history,
          historyIndex, nTasks, nFailed, nStarted

conVars == <<listening, editors, block, resizing, lockHolder, lockQueue,
             csStage, csWriting, csArg, csThen, syncs, buffer, history,
             historyIndex, nTasks, nFailed, nStarted>>

\* DeveloperConsolePseudoterminal.eval() after its commit: one record per
\* evaluation that has left the lock, with the entered text, what the code
\* does when it runs, where the evaluation stands, the strategies it has
\* attempted, the console calls it has made and how its promise settled.
VARIABLES evals

\* UnixPseudoterminal (ux), the streams of WindowsPseudoterminal (wio) and
\* the per-surface editor records of the developer console with the redraw
\* writers in flight (rnd): one record each, described with the component.
VARIABLES ux, wio, rnd

\* The settings tab: the version of the tab, the settings of the plugin, the
\* settings last saved, the text the two timeout fields show and the control
\* activated last.
VARIABLES cfg

ioVars == <<ux, wio, rnd, cfg>>

vars == <<refVars, pty, rszVars, closeVars, winVars, sessVars, conVars,
          evals, ioVars>>

\* What the steps of one component leave alone: the other components.
RefFrame ==
    UNCHANGED <<pty, rszVars, closeVars, winVars, sessVars, conVars, evals,
                ioVars>>

ResizeFrame ==
    UNCHANGED <<refVars, closeVars, winVars, sessVars, conVars, evals, ioVars>>

CloseFrame ==
    UNCHANGED <<refVars, rszVars, winVars, sessVars, conVars, evals, ioVars>>

WinFrame ==
    UNCHANGED <<refVars, pty, rszVars, closeVars, sessVars, conVars, evals,
                ioVars>>

SessFrame ==
    UNCHANGED <<refVars, pty, rszVars, closeVars, winVars, evals, ioVars>>

EvalFrame == UNCHANGED <<refVars, pty, rszVars, closeVars, winVars, ioVars>>

IoFrame ==
    UNCHANGED <<refVars, pty, rszVars, closeVars, winVars, sessVars, conVars,
                evals>>

(***************************************************************************)
(* Futures: a promise is pending, resolved with a value or rejected with   *)
(* an error, and settles at most once.                                     *)
(***************************************************************************)
Pending == [st |-> "pending", v |-> 0]

Resolved(v) == [st |-> "resolved", v |-> v]

Rejected(e) == [st |-> "rejected", v |-> e]

\* resolve(v) and reject(e) of a future: the first one settles it, a later
\* one changes nothing.
SettleOverwrites(f, o) == o

Settle(f, o) == IF f.st = "pending" THEN o ELSE f

(***************************************************************************)
(* RefPsuedoterminal.                                                      *)
(***************************************************************************)
Wrappers == 1..MaxWrappers

\* What the underlying session's onExit can settle to: an exit code, or the
\* rejection of a session that failed to start.
DelegateOutcomes == {Resolved(0), Resolved(1), Rejected(1)}

\* The constructor's ++this.#ref[0].
RefIncrementMissing(r) == r

RefIncrement(r) == r + 1

\* kill()'s test on the decremented counter: --this.#ref[0] <= 0.
RefKillRealStrict(after) == after < 0

RefKillReal(after) == after <= 0

\* The value kill() gives the wrapper's own exit future in the else branch.
KillElseOutcomeFailure == Resolved(1)

KillElseOutcome == Resolved(EXIT_SUCCESS)

RefInit ==
    /\ ref = RefIncrement(0)
    /\ nWrappers = 1
    /\ wExit = [w \in Wrappers |-> Pending]
    /\ wPropagated = [w \in Wrappers |-> FALSE]
    /\ pendRes = [w \in Wrappers |-> 0]
    /\ dExit = Pending
    /\ dKills = 0
    /\ opLog = <<>>

NumKills == Cardinality({i \in DOMAIN opLog : opLog[i].op = "kill"})

NumDups == Cardinality({i \in DOMAIN opLog : opLog[i].op = "dup"})

\* dup(): new RefPsuedoterminal(this) shares the delegate and the counter
\* cell, registers its callbacks on delegate.onExit and increments the cell.
Dup(w) ==
    /\ w <= nWrappers
    /\ nWrappers < MaxWrappers
    /\ nWrappers' = nWrappers + 1
    /\ ref' = RefIncrement(ref)
    /\ opLog' = Append(opLog, [op |-> "dup", w |-> nWrappers + 1,
                               after |-> ref', real |-> FALSE])
    /\ UNCHANGED <<wExit, wPropagated, pendRes, dExit, dKills>>
    /\ RefFrame

\* kill(), up to its first await: the decrement and the branch are one
\* synchronous step; delegate.kill() is called in it, the else branch waits
\* for this.#exit and resolves in a later microtask (KillResolve).
Kill(w) ==
    /\ w <= nWrappers
    /\ NumKills < MaxKillCalls
    /\ ref' = ref - 1
    /\ IF RefKillReal(ref')
          THEN /\ dKills' = dKills + 1
               /\ pendRes' = pendRes
          ELSE /\ dKills' = dKills
               /\ pendRes' = [pendRes EXCEPT ![w] = @ + 1]
    /\ opLog' = Append(opLog, [op |-> "kill", w |-> w,
                               after |-> ref', real |-> dKills' # dKills])
    /\ UNCHANGED <<nWrappers, wExit, wPropagated, dExit>>
    /\ RefFrame

\* The else branch after its await: (await this.#exit).resolve(EXIT_SUCCESS).
KillResolve(w) ==
    /\ pendRes[w] > 0
    /\ pendRes' = [pendRes EXCEPT ![w] = @ - 1]
    /\ wExit' = [wExit EXCEPT ![w] = Settle(@, KillElseOutcome)]
    /\ UNCHANGED <<ref, nWrappers, wPropagated, dExit, dKills, opLog>>
    /\ RefFrame

\* The underlying session's onExit settles (the process exits, on its own or
\* after a kill, or the session failed to start).
DelegateExit(o) ==
    /\ dExit.st = "pending"
    /\ dExit' = o
    /\ UNCHANGED <<ref, nWrappers, wExit, wPropagated, pendRes, dKills, opLog>>
    /\ RefFrame

\* The callbacks the constructor registered on delegate.onExit: they settle
\* the wrapper's own future with the delegate's outcome.
Propagate(w) ==
    /\ w <= nWrappers
    /\ dExit.st # "pending"
    /\ ~wPropagated[w]
    /\ wPropagated' = [wPropagated EXCEPT ![w] = TRUE]
    /\ wExit' = [wExit EXCEPT ![w] = Settle(@, dExit)]
    /\ UNCHANGED <<ref, nWrappers, pendRes, dExit, dKills, opLog>>
    /\ RefFrame

NextRef ==
    \/ \E w \in Wrappers : Dup(w)
    \/ \E w \in Wrappers : Kill(w)
    \/ \E w \in Wrappers : KillResolve(w)
    \/ \E o \in DelegateOutcomes : DelegateExit(o)
    \/ \E w \in Wrappers : Propagate(w)

(***************************************************************************)
(* XtermTerminalEmulator: the session future #pty.                         *)
(***************************************************************************)
\* #pty is pending until the session is made and pipe() has returned.
AdapterInit == pty = "pending"

\* The error a failed #pty rejects with.
PtyError == 100

(***************************************************************************)
(* XtermTerminalEmulator.resize(), debounced.  variant 1 is the version    *)
(* that keeps #resizePromises (part_005 lines 48-66 and 111-125), variant  *)
(* 2 the version built on asyncDebounce (part_005 lines 189-202 and        *)
(* 247-254, part_006 lines 181-207).  obsidian's debounce(cb, t, false)    *)
(* arms one timer on the first call, keeps the latest arguments, and calls *)
(* cb with them when the timer expires.                                    *)
(***************************************************************************)
\* The geometries the fit addon can propose, as ids of (cols, rows) pairs.
Dims == {1, 2}

\* Both versions of the resize code are the program's.
Variants == {1, 2}

ResizeInit ==
    /\ variant \in Variants
    /\ timerSet = FALSE
    /\ dbArgs = 0
    /\ plist = <<>>
    /\ rq = <<>>
    /\ firings = <<>>
    /\ invocations = <<>>
    /\ termDims = 0

SeqToSet(q) == {q[i] : i \in DOMAIN q}

\* The promise resize() returns when the fit addon proposes no dimensions:
\* variant 1 returns from the executor without settling it, variant 2
\* returns from the async function, which resolves it.
NoDimsRequest(vr) ==
    [win |-> 0, st |-> IF vr = 1 THEN "pending" ELSE "resolved",
     err |-> 0, by |-> 0]

\* resize(): with dimensions, the promise joins the list and the debouncer
\* is called; the call belongs to the window the armed timer stands for.
ResizeCall(hasDims, d) ==
    /\ Len(rq) < MaxResizeCalls
    /\ IF hasDims
          THEN /\ rq' = Append(rq, [win |-> Len(firings) + 1, st |-> "pending",
                                    err |-> 0, by |-> 0])
               /\ plist' = Append(plist, Len(rq) + 1)
               /\ dbArgs' = d
               /\ timerSet' = TRUE
          ELSE /\ rq' = Append(rq, NoDimsRequest(variant))
               /\ UNCHANGED <<plist, dbArgs, timerSet>>
    /\ UNCHANGED <<pty, variant, firings, invocations, termDims>>
    /\ ResizeFrame

\* The promises a firing takes with it when it starts: variant 1 swaps
\* #resizePromises for an empty list, variant 2 takes nothing.
CapturedAtFire(vr, list) == IF vr = 1 THEN SeqToSet(list) ELSE {}

\* The timer expires: the callback starts with the latest arguments and
\* waits for #pty.
DebounceFire ==
    /\ timerSet
    /\ timerSet' = FALSE
    /\ firings' = Append(firings, [st |-> "awaitPty", args |-> dbArgs,
                                   captured |-> CapturedAtFire(variant, plist),
                                   err |-> 0])
    /\ plist' = IF variant = 1 THEN <<>> ELSE plist
    /\ UNCHANGED <<pty, variant, dbArgs, rq, invocations, termDims>>
    /\ ResizeFrame

\* The promises firing k settles: variant 1 those it captured, variant 2
\* (asyncDebounce) promises.splice(0), every promise in the list now.
SettleTargets(k) ==
    IF variant = 1 THEN firings[k].captured ELSE SeqToSet(plist)

SettleRequests(k, st, err) ==
    /\ rq' = [i \in DOMAIN rq |->
                IF i \in SettleTargets(k) /\ rq[i].st = "pending"
                   THEN [rq[i] EXCEPT !.st = st, !.err = err, !.by = k]
                   ELSE rq[i]]
    /\ plist' = IF variant = 1 THEN plist ELSE <<>>

\* await this.#pty in the callback: the session's resize is called, or the
\* rejection of #pty goes to the catch block.  Callbacks waiting for the
\* same future continue in the order they started to wait.
FirePtyReady(k) ==
    /\ k \in DOMAIN firings
    /\ firings[k].st = "awaitPty"
    /\ \A j \in 1..(k - 1) : firings[j].st # "awaitPty"
    /\ pty # "pending"
    /\ IF pty = "ok"
          THEN /\ firings' = [firings EXCEPT ![k].st = "resizing"]
               /\ invocations' = Append(invocations,
                                        [win |-> k, args |-> firings[k].args])
               /\ UNCHANGED <<rq, plist>>
          ELSE /\ firings' = [firings EXCEPT ![k].st = "failed",
                                             ![k].err = PtyError]
               /\ SettleRequests(k, "rejected", PtyError)
               /\ UNCHANGED invocations
    /\ UNCHANGED <<pty, variant, timerSet, dbArgs, termDims>>
    /\ ResizeFrame

\* The session's resize settles: on success the surface is resized and the
\* promises resolve, on failure they reject with its error (here: k).  The
\* session's resize is a write to one stream, so its calls settle in the
\* order they were made.
FireResizeDone(k, ok) ==
    /\ k \in DOMAIN firings
    /\ firings[k].st = "resizing"
    /\ \A j \in 1..(k - 1) : firings[j].st \in {"ok", "failed"}
    /\ IF ok
          THEN /\ firings' = [firings EXCEPT ![k].st = "ok"]
               /\ termDims' = firings[k].args
               /\ SettleRequests(k, "resolved", 0)
          ELSE /\ firings' = [firings EXCEPT ![k].st = "failed", ![k].err = k]
               /\ termDims' = termDims
               /\ SettleRequests(k, "rejected", k)
    /\ UNCHANGED <<pty, variant, timerSet, dbArgs, invocations>>
    /\ ResizeFrame

\* #pty settles: the session was made and piped, or making it failed.
PtySettle(ok) ==
    /\ pty = "pending"
    /\ pty' = IF ok THEN "ok" ELSE "failed"
    /\ UNCHANGED <<refVars, rszVars, closeVars, winVars, sessVars, conVars,
                   evals, ioVars>>

NextResize ==
    \/ \E hasDims \in BOOLEAN, d \in Dims : ResizeCall(hasDims, d)
    \/ DebounceFire
    \/ \E k \in 1..MaxResizeCalls : FirePtyReady(k)
    \/ \E k \in 1..MaxResizeCalls, ok \in BOOLEAN : FireResizeDone(k, ok)
    \/ \E ok \in BOOLEAN : PtySettle(ok)

(***************************************************************************)
(* XtermTerminalEmulator.close() (the same in both versions).              *)
(***************************************************************************)
CloseInit ==
    /\ shellAlive = TRUE
    /\ exitSettled = FALSE
    /\ adExited = FALSE
    /\ disposed = FALSE
    /\ closeCalls = <<>>
    /\ shellKills = 0

\* The error close() throws when the kill reports failure.
CouldNotKill == 200

\* The shell process exits: the session's exit future resolves.
ProcessExit ==
    /\ pty = "ok"
    /\ shellAlive
    /\ shellAlive' = FALSE
    /\ exitSettled' = TRUE
    /\ UNCHANGED <<pty, adExited, disposed, closeCalls, shellKills>>
    /\ CloseFrame

\* this.exit = this.#pty.then(pty0 => pty0.exit).finally(() => #exited = true)
\* runs its finally once the session's exit has settled, and also when #pty
\* itself rejected.
ExitFinally ==
    /\ ~adExited
    /\ \/ pty = "ok" /\ exitSettled
       \/ pty = "failed"
    /\ adExited' = TRUE
    /\ UNCHANGED <<pty, shellAlive, exitSettled, disposed, closeCalls,
                   shellKills>>
    /\ CloseFrame

\* close() is called: it waits for #pty and then for pty.shell.
CloseCall ==
    /\ Len(closeCalls) < MaxCloseCalls
    /\ closeCalls' = Append(closeCalls,
                            [st |-> "waiting", sawExited |-> FALSE,
                             killed |-> FALSE, killOk |-> FALSE, err |-> 0])
    /\ UNCHANGED <<pty, shellAlive, exitSettled, adExited, disposed,
                   shellKills>>
    /\ CloseFrame

\* What shell.kill() can return: false for a process that is gone, and
\* either answer for a live one (the signal is sent, or the system refuses).
KillResults(alive) == IF alive THEN {TRUE, FALSE} ELSE {FALSE}

\* The condition of close(): this.#exited || shell.kill(); kill is called
\* only when #exited is false.
CloseCallsKill(ex) == ~ex

CloseDisposesAlways(ex, killOk) == TRUE

CloseDisposes(ex, killOk) == ex \/ killOk

\* The callback of close() runs: with #pty rejected the rejection passes
\* through; otherwise the surface is disposed or the error is thrown.
CloseRun(i, killOk) ==
    /\ i \in DOMAIN closeCalls
    /\ closeCalls[i].st = "waiting"
    /\ pty # "pending"
    /\ IF pty = "failed"
          THEN /\ closeCalls' = [closeCalls EXCEPT ![i].st = "rejected",
                                                   ![i].err = PtyError]
               /\ UNCHANGED <<disposed, shellKills>>
          ELSE /\ IF CloseCallsKill(adExited)
                     THEN /\ killOk \in KillResults(shellAlive)
                          /\ shellKills' = shellKills + 1
                     ELSE /\ killOk = FALSE
                          /\ shellKills' = shellKills
               /\ disposed' = (disposed \/ CloseDisposes(adExited, killOk))
               /\ closeCalls' =
                    [closeCalls EXCEPT
                       ![i] = [st |-> IF CloseDisposes(adExited, killOk)
                                         THEN "resolved" ELSE "rejected",
                               sawExited |-> adExited,
                               killed |-> CloseCallsKill(adExited),
                               killOk |-> killOk,
                               err |-> IF CloseDisposes(adExited, killOk)
                                          THEN 0 ELSE CouldNotKill]]
    /\ UNCHANGED <<pty, shellAlive, exitSettled, adExited>>
    /\ CloseFrame

NextClose ==
    \/ ProcessExit
    \/ ExitFinally
    \/ CloseCall
    \/ \E i \in 1..MaxCloseCalls, killOk \in BOOLEAN : CloseRun(i, killOk)
    \/ \E ok \in BOOLEAN : PtySettle(ok)

(***************************************************************************)
(* WindowsPseudoterminal.                                                  *)
(***************************************************************************)
\* Exit values: a numeric code, a signal name or NaN.
Code(n) == [k |-> "code", n |-> n, s |-> ""]

Sig(name) == [k |-> "signal", n |-> 0, s |-> name]

NaN == [k |-> "nan", n |-> 0, s |-> ""]

\* null, for the code and for the signal of the exit event.
NoCode == -1

NoSignal == ""

\* The exit event's arguments.  Node passes one of the two as null; the
\* handler takes both as nullable and falls back to NaN.
ConCodes == {NoCode, 0, 1}

Signals == {NoSignal, "SIGTERM"}

\* What the temp file can hold when it is read: the output of
\* "echo %ERRORLEVEL% >file" for the codes 3, 0 and 13, an empty file, and
\* text that is no number or only starts with one.
FileContents ==
    { <<"3", " ", "\r", "\n">>, <<"0", " ", "\r", "\n">>,
      <<"1", "3", " ", "\r", "\n">>, <<>>, <<" ", "\r", "\n">>,
      <<"-", "1", "\r", "\n">>, <<"3", "x">>, <<"x", "3">> }

\* String.prototype.trim().
IsSpace(c) == c \in {" ", "\t", "\r", "\n"}

RECURSIVE TrimLeft(_)
TrimLeft(str) ==
    IF str # <<>> /\ IsSpace(Head(str)) THEN TrimLeft(Tail(str)) ELSE str

RECURSIVE TrimRight(_)
TrimRight(str) ==
    IF str # <<>> /\ IsSpace(str[Len(str)])
       THEN TrimRight(SubSeq(str, 1, Len(str) - 1))
       ELSE str

Trim(str) == TrimRight(TrimLeft(str))

\* parseInt(str, 10): leading white space, an optional sign, then the
\* longest run of decimal digits; NaN when there is no digit.
DigitChars == {"0", "1", "2", "3", "4", "5", "6", "7", "8", "9"}

DigitValue(c) ==
    CASE c = "0" -> 0 [] c = "1" -> 1 [] c = "2" -> 2 [] c = "3" -> 3
      [] c = "4" -> 4 [] c = "5" -> 5 [] c = "6" -> 6 [] c = "7" -> 7
      [] c = "8" -> 8 [] c = "9" -> 9

RECURSIVE DigitsValue(_, _)
DigitsValue(str, acc) ==
    IF str # <<>> /\ Head(str) \in DigitChars
       THEN DigitsValue(Tail(str), 10 * acc + DigitValue(Head(str)))
       ELSE acc

ParseInt(str) ==
    LET t == TrimLeft(str)
        signed == t # <<>> /\ Head(t) \in {"+", "-"}
        u == IF signed THEN Tail(t) ELSE t
    IN  IF u = <<>> \/ Head(u) \notin DigitChars
           THEN NaN
           ELSE Code((IF signed /\ Head(t) = "-" THEN -1 ELSE 1)
                     * DigitsValue(u, 0))

\* conCode ?? signal ?? NaN.
ConFallback(con, sig) ==
    IF con # NoCode THEN Code(con)
    ELSE IF sig # NoSignal THEN Sig(sig)
    ELSE NaN

\* The value the exit handler returns: the parsed temp-file code unless it is
\* NaN or the read threw.
WinExitValuePreferConsole(readOk, contents, con, sig) ==
    IF con # NoCode THEN Code(con)
    ELSE IF readOk /\ ParseInt(Trim(contents)) # NaN
            THEN ParseInt(Trim(contents))
    ELSE ConFallback(con, sig)

WinExitValue(readOk, contents, con, sig) ==
    IF readOk
       THEN LET termCode == ParseInt(Trim(contents))
            IN  IF termCode = NaN THEN ConFallback(con, sig) ELSE termCode
       ELSE ConFallback(con, sig)

\* The try/catch around the delayed cleanup: its error is warned about and
\* goes nowhere else.
WinExitAfterCleanupEscalating(exit, cleanupOk) ==
    IF cleanupOk THEN exit ELSE Rejected(NaN)

WinExitAfterCleanup(exit, cleanupOk) == exit

WinInit ==
    /\ winPc = "resizer"
    /\ winPython \in BOOLEAN
    /\ winResizer = "none"
    /\ winTmp = "none"
    /\ cleanupCalls = 0
    /\ cleanupAt = [read |-> FALSE, grace |-> FALSE]
    /\ winCon = NoCode
    /\ winSig = NoSignal
    /\ winReadOk = FALSE
    /\ winFile = <<>>
    /\ winExit = Pending
    /\ winWarns = 0

\* resizerInitial: no helper without a Python executable; otherwise the
\* helper is spawned, and a failed spawn counts as no helper for the shell.
WinResizerSpawn(ok) ==
    /\ winPc = "resizer"
    /\ winResizer' = IF winPython /\ ok THEN "running" ELSE "none"
    /\ winPc' = "tmpFile"
    /\ UNCHANGED <<winPython, winTmp, cleanupCalls, cleanupAt, winCon, winSig,
                   winReadOk, winFile, winExit, winWarns>>
    /\ WinFrame

\* The outer catch: resizer?.kill(), and the error rejects shell and onExit.
WinStartFailedKeepsResizer ==
    /\ winResizer' = winResizer
    /\ winExit' = Rejected(NaN)
    /\ winPc' = "failed"

WinStartFailed ==
    /\ winResizer' = IF winResizer = "running" THEN "killed" ELSE winResizer
    /\ winExit' = Rejected(NaN)
    /\ winPc' = "failed"

\* tmpPromise.file(): the temp file is made, or the start-up fails.
WinTmpFile(ok) ==
    /\ winPc = "tmpFile"
    /\ IF ok
          THEN /\ winTmp' = "exists"
               /\ winPc' = "spawn"
               /\ UNCHANGED <<winResizer, winExit>>
          ELSE /\ winTmp' = winTmp
               /\ WinStartFailed
    /\ UNCHANGED <<winPython, cleanupCalls, cleanupAt, winCon, winSig,
                   winReadOk, winFile, winWarns>>
    /\ WinFrame

\* The shell is spawned; when that fails the inner catch calls
\* codeTmp.cleanup() and waits for it.
WinSpawn(ok) ==
    /\ winPc = "spawn"
    /\ IF ok
          THEN /\ winPc' = "running"
               /\ UNCHANGED <<cleanupCalls, cleanupAt>>
          ELSE /\ winPc' = "spawnCleanup"
               /\ cleanupCalls' = cleanupCalls + 1
               /\ cleanupAt' = [read |-> FALSE, grace |-> FALSE]
    /\ UNCHANGED <<winPython, winResizer, winTmp, winCon, winSig, winReadOk,
                   winFile, winExit, winWarns>>
    /\ WinFrame

\* The cleanup of the inner catch settles; either way an error is rethrown.
WinSpawnCleanupDone(ok) ==
    /\ winPc = "spawnCleanup"
    /\ winTmp' = IF ok THEN "removed" ELSE winTmp
    /\ WinStartFailed
    /\ UNCHANGED <<winPython, cleanupCalls, cleanupAt, winCon, winSig,
                   winReadOk, winFile, winWarns>>
    /\ WinFrame

\* shell0.once("exit", (conCode, signal) => ...): the handler starts to read
\* the temp file.
WinShellExit(con, sig) ==
    /\ winPc = "running"
    /\ winCon' = con
    /\ winSig' = sig
    /\ winPc' = "reading"
    /\ UNCHANGED <<winPython, winResizer, winTmp, cleanupCalls, cleanupAt,
                   winReadOk, winFile, winExit, winWarns>>
    /\ WinFrame

\* readFile settles: the handler returns its value, which resolves onExit,
\* and its finally block starts the detached sleep-then-cleanup.
WinReadDone(readOk, contents) ==
    /\ winPc = "reading"
    /\ winReadOk' = readOk
    /\ winFile' = IF readOk THEN contents ELSE <<>>
    /\ winExit' = Settle(winExit,
                         Resolved(WinExitValue(readOk, winFile', winCon, winSig)))
    /\ winPc' = "grace"
    /\ UNCHANGED <<winPython, winResizer, winTmp, cleanupCalls, cleanupAt,
                   winCon, winSig, winWarns>>
    /\ WinFrame

\* sleep2(self, TERMINAL_EXIT_CLEANUP_WAIT) is over: codeTmp.cleanup() is
\* called.
WinGraceElapsed ==
    /\ winPc = "grace"
    /\ cleanupCalls' = cleanupCalls + 1
    /\ cleanupAt' = [read |-> TRUE, grace |-> TRUE]
    /\ winPc' = "cleaning"
    /\ UNCHANGED <<winPython, winResizer, winTmp, winCon, winSig, winReadOk,
                   winFile, winExit, winWarns>>
    /\ WinFrame

\* The delayed cleanup settles; its error is caught and warned about.
WinCleanupDone(ok) ==
    /\ winPc = "cleaning"
    /\ winTmp' = IF ok THEN "removed" ELSE winTmp
    /\ winWarns' = IF ok THEN winWarns ELSE winWarns + 1
    /\ winExit' = WinExitAfterCleanup(winExit, ok)
    /\ winPc' = "done"
    /\ UNCHANGED <<winPython, winResizer, cleanupCalls, cleanupAt, winCon,
                   winSig, winReadOk, winFile>>
    /\ WinFrame

NextWin ==
    \/ \E ok \in BOOLEAN : WinResizerSpawn(ok)
    \/ \E ok \in BOOLEAN : WinTmpFile(ok)
    \/ \E ok \in BOOLEAN : WinSpawn(ok)
    \/ \E ok \in BOOLEAN : WinSpawnCleanupDone(ok)
    \/ \E con \in ConCodes, sig \in Signals : WinShellExit(con, sig)
    \/ \E readOk \in BOOLEAN, contents \in FileContents :
          WinReadDone(readOk, contents)
    \/ WinGraceElapsed
    \/ \E ok \in BOOLEAN : WinCleanupDone(ok)

(***************************************************************************)
(* PseudoPseudoterminal, TextPseudoterminal and                            *)
(* DeveloperConsolePseudoterminal.                                         *)
(***************************************************************************)
\* The display surfaces that can be piped to the session.
Surfaces == {1, 2}

\* The input chunks: a letter and a line feed.
Chunks == {"a", "\n"}

\* A lock-guarded section: its kind, the surface whose handler asked for it,
\* its argument (the input chunk, the arrow key) and the surfaces it copied
\* when it was called (terminals0).
Section(kind, surf, arg, surfs) ==
    [kind |-> kind, surf |-> surf, arg |-> arg, surfs |-> surfs]

NoSection == Section("none", 0, "", {})

\* text.includes("\n").
HasNewlineNever(text) == FALSE

HasNewline(text) == \E i \in DOMAIN text : text[i] = "\n"

Last(q) == q[Len(q)]

\* The % of JavaScript: the remainder has the sign of the dividend.
JSRem(a, n) == IF a >= 0 THEN a % n ELSE -((-a) % n)

\* The step of a navigation: key === "ArrowDown" ? 1 : -1.
NavDeltaSwapped(key) == IF key = "ArrowDown" THEN -1 ELSE 1

NavDelta(key) == IF key = "ArrowDown" THEN 1 ELSE -1

\* Array.prototype.at for an index within (-length, length).
At(q, i) == IF i >= 0 THEN q[i + 1] ELSE q[Len(q) + i + 1]

SessInit ==
    /\ sessKind \in {"text", "console"}
    /\ budget \in {MaxTasks, MaxHistTasks, MaxEvalTasks}
    /\ sExit = FALSE
    /\ exited = FALSE
    /\ tornDown = FALSE
    /\ terminals = {}
    /\ addons = {}
    /\ handlers = {}
    /\ tDisposed = {}
    /\ lastPipe = [t |-> 0, threw |-> FALSE]

\* The constructor: #history = [""], #historyIndex = 0, the lock is free and
\* the console listens to the log from the start.
ConInit ==
    /\ listening = (sessKind = "console")
    /\ editors = {}
    /\ block = {}
    /\ resizing = {}
    /\ lockHolder = NoSection
    /\ lockQueue = <<>>
    /\ csStage = "idle"
    /\ csWriting = FALSE
    /\ csArg = <<>>
    /\ csThen = "none"
    /\ syncs = {}
    /\ buffer = <<>>
    /\ history = << <<>> >>
    /\ historyIndex = 0
    /\ nTasks = 0
    /\ nFailed = 0
    /\ nStarted = 0

\* AsyncLock({maxPending: MAX_LOCK_PENDING}): an acquisition is refused when
\* the queue already holds maxPending waiting sections.
LockFullOffByOne(q) == Len(q) > MAX_LOCK_PENDING

LockFull(q) == Len(q) >= MAX_LOCK_PENDING

\* lock.acquire(key, fn): fn runs at once when the lock is free, the
\* acquisition fails when the queue is full, and waits in the queue otherwise.
Acquire(sec) ==
    /\ nTasks < budget
    /\ nTasks' = nTasks + 1
    /\ IF lockHolder = NoSection
          THEN /\ lockHolder' = sec
               /\ csStage' = "ready"
               /\ UNCHANGED <<lockQueue, nFailed>>
          ELSE IF LockFull(lockQueue)
                  THEN /\ nFailed' = nFailed + 1
                       /\ UNCHANGED <<lockHolder, lockQueue, csStage>>
                  ELSE /\ lockQueue' = Append(lockQueue, sec)
                       /\ UNCHANGED <<lockHolder, csStage, nFailed>>

AcquireFails == lockHolder # NoSection /\ LockFull(lockQueue)

\* The section that holds the lock ends: the next waiting section gets it.
ReleaseKeepsLock == UNCHANGED <<lockHolder, lockQueue, csStage>>

Release ==
    IF lockQueue = <<>>
       THEN /\ lockHolder' = NoSection
            /\ csStage' = "idle"
            /\ lockQueue' = lockQueue
       ELSE /\ lockHolder' = Head(lockQueue)
            /\ csStage' = "ready"
            /\ lockQueue' = Tail(lockQueue)

\* A section that got the lock starts in the same turn: no event handler
\* runs in between.
Quiet == csStage # "ready"

\* pipe() of PseudoPseudoterminal throws when the exited flag is set.
PipeThrowsNever(ex) == FALSE

PipeThrows(ex) == ex

\* pipe(terminal): super.pipe throws or loads the disposer addon and adds the
\* surface; the console then installs its handlers and writes the log
\* history to the surface, the text session rewrites its text, both under
\* the lock.
PipeCall(t) ==
    /\ Quiet
    /\ t \notin terminals /\ t \notin addons /\ t \notin tDisposed
    /\ lastPipe' = [t |-> t, threw |-> PipeThrows(exited)]
    /\ IF PipeThrows(exited)
          THEN UNCHANGED <<terminals, addons, handlers, conVars>>
          ELSE /\ terminals' = terminals \cup {t}
               /\ addons' = addons \cup {t}
               /\ handlers' = IF sessKind = "console"
                                 THEN handlers \cup {t} ELSE handlers
               /\ Acquire(Section(IF sessKind = "console" THEN "pipewrite"
                                                          ELSE "rewrite",
                                  t, "", {t}))
               /\ UNCHANGED <<listening, editors, block, resizing, csWriting,
                              csArg, csThen, syncs, buffer, history,
                              historyIndex, nStarted>>
    /\ UNCHANGED <<sessKind, budget, sExit, exited, tornDown,
                   tDisposed>>
    /\ SessFrame

\* The surface is disposed: the disposer addons remove it from the attached
\* list and delete its editor; its handlers go with it.
DisposeSurface(t) ==
    /\ Quiet
    /\ t \in addons
    /\ t \notin tDisposed
    /\ tDisposed' = tDisposed \cup {t}
    /\ terminals' = terminals \ {t}
    /\ handlers' = handlers \ {t}
    /\ editors' = editors \ {t}
    /\ UNCHANGED <<sessKind, budget, sExit, exited, tornDown,
                   addons, lastPipe>>
    /\ UNCHANGED <<listening, block, resizing, lockHolder, lockQueue, csStage,
                   csWriting, csArg, csThen, syncs, buffer, history,
                   historyIndex, nTasks, nFailed, nStarted>>
    /\ SessFrame

\* kill(): (await this.#exit).resolve(EXIT_SUCCESS).  #exit is settled from
\* the construction on, so the resolution follows the call within the turn;
\* resolving a settled future changes nothing.
SessKill ==
    /\ Quiet
    /\ sExit' = TRUE
    /\ UNCHANGED <<sessKind, budget, exited, tornDown, terminals, addons,
                   handlers, tDisposed, lastPipe, conVars>>
    /\ SessFrame

\* onExit's first finally: this.exited = true.
SessExited ==
    /\ sExit
    /\ ~exited
    /\ exited' = TRUE
    /\ UNCHANGED <<sessKind, budget, sExit, tornDown, terminals,
                   addons, handlers, tDisposed, lastPipe, conVars>>
    /\ SessFrame

\* The later finally blocks: the attached list is cleared; the console stops
\* listening to the log, closes its editors and disposes its handlers.
SessTeardown ==
    /\ exited
    /\ ~tornDown
    /\ tornDown' = TRUE
    /\ terminals' = {}
    /\ handlers' = {}
    /\ listening' = FALSE
    /\ editors' = {}
    /\ UNCHANGED <<sessKind, budget, sExit, exited, addons,
                   tDisposed, lastPipe>>
    /\ UNCHANGED <<block, resizing, lockHolder, lockQueue, csStage, csWriting,
                   csArg, csThen, syncs, buffer, history, historyIndex,
                   nTasks, nFailed, nStarted>>
    /\ SessFrame

SessUnchanged ==
    UNCHANGED <<sessKind, budget, sExit, exited, tornDown,
                terminals, addons, handlers, tDisposed, lastPipe>>

\* What a handler that only asks for the lock leaves alone.
SectionUnchanged ==
    UNCHANGED <<listening, editors, csWriting, csArg, csThen, syncs, buffer,
                history, historyIndex, nStarted>>

\* onData: a chunk whose key the key handler consumed is dropped; any other
\* chunk asks for the lock.
DataEvent(t, ch) ==
    /\ Quiet
    /\ t \in handlers
    /\ IF t \in block
          THEN /\ block' = block \ {t}
               /\ UNCHANGED <<lockHolder, lockQueue, csStage, nTasks, nFailed>>
          ELSE /\ Acquire(Section("data", t, ch, {}))
               /\ block' = block
    /\ UNCHANGED resizing
    /\ SectionUnchanged
    /\ SessUnchanged
    /\ SessFrame

\* The end of the key handler for Enter, ArrowUp and ArrowDown: block = true
\* for the surface of this pipe() call.
BlockAfterKeyUnset(blk, t) == blk

BlockAfterKey(blk, t) == blk \cup {t}

\* onKey, Enter: eval() asks for the lock, and the key's chunk is blocked.
EnterKey(t) ==
    /\ Quiet
    /\ t \in handlers
    /\ Acquire(Section("eval", t, "", {}))
    /\ block' = BlockAfterKey(block, t)
    /\ UNCHANGED resizing
    /\ SectionUnchanged
    /\ SessUnchanged
    /\ SessFrame

\* onKey, ArrowUp and ArrowDown: nothing when the open history entry has a
\* line feed; else the navigation asks for the lock and the key's chunk is
\* blocked.
ArrowKey(t, key) ==
    /\ Quiet
    /\ t \in handlers
    /\ IF HasNewline(Last(history))
          THEN UNCHANGED <<block, lockHolder, lockQueue, csStage, nTasks,
                           nFailed>>
          ELSE /\ Acquire(Section("nav", t, key, {}))
               /\ block' = BlockAfterKey(block, t)
    /\ UNCHANGED resizing
    /\ SectionUnchanged
    /\ SessUnchanged
    /\ SessFrame

\* onResize: one locked redraw of the surface at a time; the flag is lowered
\* when the redraw settles, at once when the lock refuses it.
ResizeEvent(t) ==
    /\ Quiet
    /\ t \in handlers
    /\ IF t \in resizing
          THEN UNCHANGED <<resizing, lockHolder, lockQueue, csStage, nTasks,
                           nFailed>>
          ELSE /\ Acquire(Section("resize", t, "", {t}))
               /\ resizing' = IF AcquireFails THEN resizing
                                              ELSE resizing \cup {t}
    /\ UNCHANGED block
    /\ SectionUnchanged
    /\ SessUnchanged
    /\ SessFrame

\* The log listener: write([event]) to the surfaces attached at the call.
LogEvent ==
    /\ Quiet
    /\ listening
    /\ Acquire(Section("log", 0, "", terminals))
    /\ UNCHANGED <<block, resizing>>
    /\ SectionUnchanged
    /\ SessUnchanged
    /\ SessFrame

\* syncBuffer(terminals, false) is called: a redraw of the surfaces attached
\* at the call is in flight.
Redraw(role, surfs) == [role |-> role, surfs |-> surfs]

\* The section that got the lock runs up to its first await.
SectionStart ==
    /\ csStage = "ready"
    /\ CASE \/ lockHolder.kind = "data"
            \/ lockHolder.kind = "nav" /\ ~HasNewline(Last(history)) ->
                 /\ csStage' = "dual"
                 /\ csWriting' = TRUE
                 /\ csThen' = "none"
                 /\ syncs' = {Redraw("loop", terminals)}
                 /\ IF lockHolder.kind = "data"
                       THEN /\ csArg' = <<lockHolder.arg>>
                            /\ historyIndex' = historyIndex
                       ELSE /\ historyIndex' =
                                  JSRem(historyIndex + NavDelta(lockHolder.arg),
                                        Len(history))
                            /\ csArg' = At(history, historyIndex')
                 /\ UNCHANGED <<lockHolder, lockQueue>>
           [] lockHolder.kind = "nav" /\ HasNewline(Last(history)) ->
                 /\ Release
                 /\ UNCHANGED <<csWriting, csThen, syncs, csArg, historyIndex>>
           [] lockHolder.kind = "eval" ->
                 /\ csStage' = "clear"
                 /\ UNCHANGED <<lockHolder, lockQueue, csWriting, csThen,
                                syncs, csArg, historyIndex>>
           [] lockHolder.kind \in {"log", "pipewrite", "rewrite"} ->
                 /\ csStage' = "termwrite"
                 /\ UNCHANGED <<lockHolder, lockQueue, csWriting, csThen,
                                syncs, csArg, historyIndex>>
           [] lockHolder.kind = "resize" ->
                 /\ csStage' = "main"
                 /\ syncs' = {Redraw("main", lockHolder.surfs)}
                 /\ UNCHANGED <<lockHolder, lockQueue, csWriting, csThen,
                                csArg, historyIndex>>
    /\ nStarted' = nStarted + 1
    /\ UNCHANGED <<listening, editors, block, resizing, buffer, history,
                   nTasks, nFailed>>
    /\ SessUnchanged
    /\ SessFrame

\* TerminalTextArea, the edit buffer, as far as the session uses it: write
\* applies an input chunk to the text (here: appends it), setValue replaces
\* the text.
BufferWrite(text, data) == text \o data

BufferSetValue(text, value) == value

\* this.#history[this.#history.length - 1] = buffer.value.string.
MirrorFirstEntry(h, text) == [h EXCEPT ![1] = text]

MirrorNothing(h, text) == h

MirrorOpenEntry(h, text) == [h EXCEPT ![Len(h)] = text]

\* buffer.write(data) or buffer.setValue(text) settles: writing is lowered,
\* an input write copies the buffer to the open history entry, and the
\* write's continuation calls syncBuffer.
BufferWritten ==
    /\ csStage = "dual"
    /\ csWriting
    /\ csWriting' = FALSE
    /\ buffer' = IF lockHolder.kind = "data"
                    THEN BufferWrite(buffer, csArg)
                    ELSE BufferSetValue(buffer, csArg)
    /\ history' = IF lockHolder.kind = "data"
                     THEN MirrorOpenEntry(history, buffer')
                     ELSE history
    /\ csArg' = <<>>
    /\ csThen' = "busy"
    /\ syncs' = syncs \cup {Redraw("then", terminals)}
    /\ UNCHANGED <<listening, editors, block, resizing, lockHolder, lockQueue,
                   csStage, historyIndex, nTasks, nFailed, nStarted>>
    /\ SessUnchanged
    /\ SessFrame

\* this.#history.splice(length - 1, 1, ret, ""): the open entry is replaced
\* by the cleared text and a new open entry follows it.
CommitHistoryPushOnly(h, text) == Append(h, text)

CommitHistory(h, text) == SubSeq(h, 1, Len(h) - 1) \o <<text, <<>> >>

\* this.#historyIndex = length, the length read before the splice: the
\* index (from 0) of the open entry the splice appends.
CommitIndexPastEnd(h) == Len(h) + 1

CommitIndex(h) == Len(h)

\* buffer.clear() of eval settles: the cleared text replaces the open history
\* entry, a new open entry follows it, the index points at the new entry, and
\* the redraw is called.
BufferCleared ==
    /\ csStage = "clear"
    /\ buffer' = <<>>
    /\ history' = CommitHistory(history, buffer)
    /\ historyIndex' = CommitIndex(history)
    /\ csStage' = "main"
    /\ syncs' = {Redraw("main", terminals)}
    /\ UNCHANGED <<listening, editors, block, resizing, lockHolder, lockQueue,
                   csWriting, csArg, csThen, nTasks, nFailed, nStarted>>
    /\ SessUnchanged
    /\ SessFrame

\* The terminal writes of write() or rewrite() settle: write() has set the
\* editor of each surface it copied and calls the redraw; rewrite() is done.
TerminalsWritten ==
    /\ csStage = "termwrite"
    /\ IF lockHolder.kind = "rewrite"
          THEN /\ Release
               /\ UNCHANGED <<editors, syncs>>
          ELSE /\ editors' = editors \cup lockHolder.surfs
               /\ csStage' = "main"
               /\ syncs' = {Redraw("main", lockHolder.surfs)}
               /\ UNCHANGED <<lockHolder, lockQueue>>
    /\ UNCHANGED <<listening, block, resizing, csWriting, csArg, csThen,
                   buffer, history, historyIndex, nTasks, nFailed, nStarted>>
    /\ SessUnchanged
    /\ SessFrame

\* A redraw in flight settles.  The loop of an input write or a navigation
\* calls the next redraw while writing is up; the section ends when the loop
\* has left and the continuation's redraw has settled; a section whose last
\* await is the redraw ends with it.
RedrawSettled(x) ==
    /\ x \in syncs
    /\ CASE x.role = "loop" ->
                IF csWriting
                   THEN /\ syncs' = (syncs \ {x}) \cup {Redraw("loop", terminals)}
                        /\ UNCHANGED <<lockHolder, lockQueue, csStage, csThen>>
                   ELSE /\ syncs' = syncs \ {x}
                        /\ IF csThen = "done"
                              THEN Release /\ csThen' = "none"
                              ELSE UNCHANGED <<lockHolder, lockQueue, csStage,
                                               csThen>>
         [] x.role = "then" ->
                /\ syncs' = syncs \ {x}
                /\ IF \E y \in syncs : y.role = "loop"
                      THEN /\ csThen' = "done"
                           /\ UNCHANGED <<lockHolder, lockQueue, csStage>>
                      ELSE Release /\ csThen' = "none"
         [] x.role = "main" ->
                /\ syncs' = syncs \ {x}
                /\ Release
                /\ csThen' = csThen
    /\ resizing' = IF x.role = "main" /\ lockHolder.kind = "resize"
                      THEN resizing \ {lockHolder.surf} ELSE resizing
    /\ UNCHANGED <<listening, editors, block, csWriting, csArg, buffer,
                   history, historyIndex, nTasks, nFailed, nStarted>>
    /\ SessUnchanged
    /\ SessFrame

AllRedraws ==
    {Redraw(r, S) : r \in {"loop", "then", "main"}, S \in SUBSET Surfaces}

NextSess ==
    \/ \E t \in Surfaces : PipeCall(t)
    \/ \E t \in Surfaces : DisposeSurface(t)
    \/ SessKill
    \/ SessExited
    \/ SessTeardown
    \/ \E t \in Surfaces, ch \in Chunks : DataEvent(t, ch)
    \/ \E t \in Surfaces : EnterKey(t)
    \/ \E t \in Surfaces, key \in {"ArrowUp", "ArrowDown"} : ArrowKey(t, key)
    \/ \E t \in Surfaces : ResizeEvent(t)
    \/ LogEvent
    \/ SectionStart
    \/ BufferWritten
    \/ BufferCleared
    \/ TerminalsWritten
    \/ \E x \in AllRedraws : RedrawSettled(x)

(***************************************************************************)
(* DeveloperConsolePseudoterminal.eval() after the commit: the entered     *)
(* code is echoed, parsed, evaluated as a script that returns the value of *)
(* its last statement (strategy 1) and, where that cannot be done,         *)
(* evaluated as it is (strategy 2).  Every console call is a log event,    *)
(* which the session's listener writes to the attached surfaces under the  *)
(* lock (src/sources/patch.ts, lines 95-125).                              *)
(***************************************************************************)
\* What a piece of entered code does: whether parse() accepts it, whether it
\* has a last statement, how the script wrapped around the last statement
\* ends ("value", "syntax" for a SyntaxError, "other" for any other error,
\* "none" where there is no last statement), the value it returns, and how
\* the code evaluated as it is ends ("ok" or "error").  ran tells whether
\* the wrapped script was compiled and called, so that the entered code
\* started to run in strategy 1: it did when a value or an error other than
\* a SyntaxError came out, and it did not when there was no wrapped script.
Script(parses, stmt, first, value, second) ==
    [parses |-> parses, stmt |-> stmt, first |-> first, value |-> value,
     second |-> second, ran |-> first \in {"value", "other"}]

\* A code whose wrapped script compiles and throws a SyntaxError while it
\* runs, as "JSON.parse('{')" or "eval('(')" do.
ThrowsSyntaxError(c) == [c EXCEPT !.ran = TRUE]

\* "1+1": the wrapped script returns [2].
OnePlusOne == Script(TRUE, TRUE, "value", "2", "ok")

\* "let x = 1": "return [(let x = 1)]" is a SyntaxError, the declaration
\* itself runs.
LetX == Script(TRUE, TRUE, "syntax", "", "ok")

CodeClasses ==
    {Script(FALSE, FALSE, "none", "", "error"), Script(TRUE, FALSE, "none", "", "ok")}
    \cup {Script(TRUE, TRUE, "value", "2", o) : o \in {"ok", "error"}}
    \cup {Script(TRUE, TRUE, f, "", o) : f \in {"syntax", "other"},
                                      o \in {"ok", "error"}}
    \cup {ThrowsSyntaxError(Script(TRUE, TRUE, "syntax", "", o)) :
              o \in {"ok", "error"}}

LogEntry(type, data) == [type |-> type, data |-> data]

Evaluation(text, cls) ==
    [text |-> text, cls |-> cls, pc |-> "parse", tried |-> <<>>,
     logs |-> <<LogEntry("info", "code")>>, result |-> "pending",
     runs |-> 0]

EvalInit == evals = <<>>

\* The evaluations whose section has committed and returned the code.
Returned ==
    Len(history) - 1
    - (IF lockHolder.kind = "eval" /\ csStage = "main" THEN 1 ELSE 0)

\* self1.console.debug / error / log: the patched console emits a log event
\* and the listener of a session that still listens calls write([event]).
Emit(type) ==
    IF listening
       THEN Acquire(Section("log", 0, type, terminals))
       ELSE UNCHANGED <<lockHolder, lockQueue, csStage, nTasks, nFailed>>

EvalUnchanged ==
    /\ UNCHANGED <<listening, editors, block, resizing, csWriting, csArg,
                   csThen, syncs, buffer, history, historyIndex, nStarted>>
    /\ SessUnchanged
    /\ EvalFrame

\* lock.acquire returns the committed code: console.log(code).
EvalBegin(c) ==
    /\ Quiet
    /\ Len(evals) < Returned
    /\ evals' = Append(evals, Evaluation(history[Len(evals) + 1], c))
    /\ Emit("info")
    /\ EvalUnchanged

\* The strategy that runs once the code is parsed: the wrapped script when
\* there is a last statement, the code itself when there is none.
AfterParse(c) ==
    IF ~c.parses THEN "done" ELSE IF c.stmt THEN "first" ELSE "second"

Attempt(tried, pc) == IF pc \in {"first", "second"} THEN Append(tried, pc)
                                                      ELSE tried

\* parse(code): a code that does not parse is logged as an error and eval
\* returns; otherwise the first evaluation is called.
EvalParse(i) ==
    /\ Quiet
    /\ i \in DOMAIN evals
    /\ evals[i].pc = "parse"
    /\ LET e == evals[i]
           next == AfterParse(e.cls)
       IN  /\ evals' = [evals EXCEPT ![i] =
                  [e EXCEPT !.pc = next,
                            !.tried = Attempt(e.tried, next),
                            !.logs = IF next = "done"
                                        THEN Append(e.logs, LogEntry("error", "error"))
                                        ELSE e.logs,
                            !.result = IF next = "done" THEN "resolved"
                                                        ELSE "pending"]]
           /\ IF next = "done"
                 THEN Emit("error")
                 ELSE UNCHANGED <<lockHolder, lockQueue, csStage, nTasks,
                                  nFailed>>
    /\ EvalUnchanged

\* The catch of strategy 1: only a SyntaxError lets strategy 2 run.
AfterFirstAlwaysRetries(c) == IF c.first = "value" THEN "done" ELSE "second"

AfterFirst(c) == IF c.first = "syntax" THEN "second" ELSE "done"

\* What the settling of strategy 1 logs: the value, the SyntaxError at debug
\* level, any other error at error level.
FirstLogErrorLevel(c) ==
    IF c.first = "value" THEN LogEntry("info", c.value)
                         ELSE LogEntry("error", "error")

FirstLog(c) ==
    CASE c.first = "value" -> LogEntry("info", c.value)
      [] c.first = "syntax" -> LogEntry("debug", "error")
      [] OTHER -> LogEntry("error", "error")

\* The times the entered code has started to run once evaluate(codeRet) has
\* settled: new ctor(...) compiles the wrapped script and (context) calls it.
RunsAfterFirst(e) == IF e.cls.ran THEN e.runs + 1 ELSE e.runs

\* The same once evaluate(code) has settled: the code, which parse()
\* accepted, is compiled as it is and called.
RunsAfterSecond(e) == e.runs + 1

\* evaluate(codeRet) settles.
EvalFirstSettled(i) ==
    /\ Quiet
    /\ i \in DOMAIN evals
    /\ evals[i].pc = "first"
    /\ LET e == evals[i]
           next == AfterFirst(e.cls)
           entry == FirstLog(e.cls)
       IN  /\ evals' = [evals EXCEPT ![i] =
                  [e EXCEPT !.pc = next,
                            !.tried = Attempt(e.tried, next),
                            !.logs = Append(e.logs, entry),
                            !.runs = RunsAfterFirst(e),
                            !.result = IF next = "done" THEN "resolved"
                                                        ELSE "pending"]]
           /\ Emit(entry.type)
    /\ EvalUnchanged

\* What the settling of strategy 2 logs: ret is [] and ret[0] is logged, or
\* the error is.
SecondLog(c) ==
    IF c.second = "ok" THEN LogEntry("info", "undefined")
                       ELSE LogEntry("error", "error")

\* evaluate(code) settles.
EvalSecondSettled(i) ==
    /\ Quiet
    /\ i \in DOMAIN evals
    /\ evals[i].pc = "second"
    /\ LET e == evals[i]
           entry == SecondLog(e.cls)
       IN  /\ evals' = [evals EXCEPT ![i] =
                  [e EXCEPT !.pc = "done",
                            !.logs = Append(e.logs, entry),
                            !.runs = RunsAfterSecond(e),
                            !.result = "resolved"]]
           /\ Emit(entry.type)
    /\ EvalUnchanged

(***************************************************************************)
(* UnixPseudoterminal (pseudoterminal.ts, lines 870-957): the helper is     *)
(* spawned with four piped stdio streams, pipe() connects a surface to     *)
(* stdin, stdout and stderr, resize() writes to the fourth stream.         *)
(* spawnPromise and writePromise come from sources/util: spawnPromise      *)
(* settles with the process the given function spawns or with its error,   *)
(* writePromise writes a chunk to a stream.                                *)
(***************************************************************************)
\* errors.no-Python-to-spawn-Unix-pseudoterminal, and an error of spawn().
NoPythonError == 300

SpawnError == 301

\* String(n) of a non-negative integer, as a sequence of digit characters.
DigitChar(d) ==
    CASE d = 0 -> "0" [] d = 1 -> "1" [] d = 2 -> "2" [] d = 3 -> "3"
      [] d = 4 -> "4" [] d = 5 -> "5" [] d = 6 -> "6" [] d = 7 -> "7"
      [] d = 8 -> "8" [] d = 9 -> "9"

RECURSIVE ToDigits(_)
ToDigits(n) ==
    IF n < 10 THEN <<DigitChar(n)>>
              ELSE Append(ToDigits(n \div 10), DigitChar(n % 10))

\* `${columns}x${rows}\n`, the line of both sessions' resize().
ResizeLineSwapped(columns, rows) ==
    ToDigits(rows) \o <<"x">> \o ToDigits(columns) \o <<"\n">>

ResizeLine(columns, rows) ==
    ToDigits(columns) \o <<"x">> \o ToDigits(rows) \o <<"\n">>

\* The geometries a resize is called with.
Geometry == {24, 80}

\* The function given to spawnPromise: it throws without a Python
\* executable, otherwise it spawns, which can fail.
UxSpawnIgnoresPython(python, ok) ==
    IF ok THEN Resolved(0) ELSE Rejected(SpawnError)

UxSpawnOutcome(python, ok) ==
    IF ~python THEN Rejected(NoPythonError)
    ELSE IF ok THEN Resolved(0)
    ELSE Rejected(SpawnError)

\* What the exit of the session lets pipe()'s finally dispose: the writer,
\* the surface's input subscription.
UxDisposedOnExit(p) == [p EXCEPT !.writer = FALSE, !.fin = TRUE]

\* A pipe() call: where it stands, the error it rejected with, whether it
\* cleared the surface, its listeners on stdout and stderr, its input
\* subscription, whether the exit's finally has run for it and whether the
\* surface was disposed.
UxPipe ==
    [st |-> "awaitShell", err |-> 0, cleared |-> FALSE, out |-> FALSE,
     errl |-> FALSE, writer |-> FALSE, fin |-> FALSE, disposed |-> FALSE]

\* The constructor returns: shell and onExit are pending, nothing is thrown.
UnixInit ==
    ux \in [python : BOOLEAN, threw : {FALSE}, shell : {Pending},
            exit : {Pending}, alive : {FALSE}, pipes : {<<>>},
            writes : {<<>>}, resizes : {<<>>}]

UxUnchanged == UNCHANGED <<wio, rnd, cfg>> /\ IoFrame

\* The spawn settles: shell resolves with the process, or shell and with it
\* onExit reject.
UxSpawnSettle(ok) ==
    /\ ux.shell = Pending
    /\ LET o == UxSpawnOutcome(ux.python, ok)
       IN  ux' = [ux EXCEPT !.shell = o,
                            !.alive = (o.st = "resolved"),
                            !.exit = IF o.st = "rejected" THEN o ELSE @]
    /\ UxUnchanged

\* The process exits: onExit resolves with code ?? signal ?? NaN.
UxProcessExit(code) ==
    /\ ux.alive
    /\ ux' = [ux EXCEPT !.alive = FALSE,
                        !.exit = Settle(@, Resolved(code))]
    /\ UxUnchanged

\* pipe(terminal) is called and waits for shell.
UxPipeCall ==
    /\ Len(ux.pipes) < MaxUnixCalls
    /\ ux' = [ux EXCEPT !.pipes = Append(@, UxPipe)]
    /\ UxUnchanged

\* await this.shell in pipe(): a rejection is pipe()'s; otherwise
\* clearTerminal(terminal, true) is called.
UxPipeShellReady(i) ==
    /\ i \in DOMAIN ux.pipes
    /\ ux.pipes[i].st = "awaitShell"
    /\ ux.shell # Pending
    /\ ux' = IF ux.shell.st = "rejected"
                THEN [ux EXCEPT !.pipes[i].st = "rejected",
                                !.pipes[i].err = ux.shell.v]
                ELSE [ux EXCEPT !.pipes[i].st = "clearing",
                                !.pipes[i].cleared = TRUE]
    /\ UxUnchanged

\* clearTerminal settles: the disposer addon is loaded, the reader listens
\* to stdout and stderr, the surface's input is subscribed and the finally
\* on onExit is registered.
UxPipeAttach(i) ==
    /\ i \in DOMAIN ux.pipes
    /\ ux.pipes[i].st = "clearing"
    /\ ux' = [ux EXCEPT !.pipes[i].st = "attached",
                        !.pipes[i].out = ~ux.pipes[i].disposed,
                        !.pipes[i].errl = ~ux.pipes[i].disposed,
                        !.pipes[i].writer = ~ux.pipes[i].disposed]
    /\ UxUnchanged

\* this.onExit.catch(...).finally(() => { writer.dispose() }).
UxExitFinally(i) ==
    /\ i \in DOMAIN ux.pipes
    /\ ux.pipes[i].st = "attached"
    /\ ~ux.pipes[i].fin
    /\ ux.exit # Pending
    /\ ux' = [ux EXCEPT !.pipes[i] = UxDisposedOnExit(@)]
    /\ UxUnchanged

\* The surface is disposed: the disposer addon removes the reader from
\* stdout and stderr, and the surface's subscriptions end with it.
UxDispose(i) ==
    /\ i \in DOMAIN ux.pipes
    /\ ~ux.pipes[i].disposed
    /\ ux' = [ux EXCEPT !.pipes[i].disposed = TRUE,
                        !.pipes[i].out = FALSE,
                        !.pipes[i].errl = FALSE,
                        !.pipes[i].writer = FALSE]
    /\ UxUnchanged

\* terminal.onData: the input is written to the process's stdin.
UxDataIn(i) ==
    /\ i \in DOMAIN ux.pipes
    /\ ux.pipes[i].writer
    /\ Len(ux.writes) < MaxUnixWrites
    /\ ux' = [ux EXCEPT !.writes =
                 Append(@, [stream |-> "stdin", data |-> <<"a">>, by |-> 0])]
    /\ UxUnchanged

\* resize(columns, rows): rejects with shell, otherwise writes the line to
\* stdio[3].
UxResize(columns, rows) ==
    /\ ux.shell # Pending
    /\ Len(ux.resizes) < MaxUnixCalls
    /\ Len(ux.writes) < MaxUnixWrites
    /\ LET k == Len(ux.resizes) + 1
       IN  ux' = IF ux.shell.st = "rejected"
                THEN [ux EXCEPT !.resizes =
                         Append(@, [columns |-> columns, rows |-> rows,
                                    st |-> "rejected"])]
                ELSE [ux EXCEPT !.resizes =
                         Append(@, [columns |-> columns, rows |-> rows,
                                    st |-> "written"]),
                                !.writes =
                         Append(@, [stream |-> "cmdio",
                                    data |-> ResizeLine(columns, rows),
                                    by |-> k])]
    /\ UxUnchanged

NextUnix ==
    \/ \E ok \in BOOLEAN : UxSpawnSettle(ok)
    \/ \E code \in {0, 1} : UxProcessExit(code)
    \/ UxPipeCall
    \/ \E i \in 1..MaxUnixCalls : UxPipeShellReady(i)
    \/ \E i \in 1..MaxUnixCalls : UxPipeAttach(i)
    \/ \E i \in 1..MaxUnixCalls : UxExitFinally(i)
    \/ \E i \in 1..MaxUnixCalls : UxDispose(i)
    \/ \E i \in 1..MaxUnixCalls : UxDataIn(i)
    \/ \E columns \in Geometry, rows \in Geometry : UxResize(columns, rows)


(***************************************************************************)
(* WindowsPseudoterminal, its streams (pseudoterminal.ts, lines 675-788    *)
(* and 836-867): the resizer helper with the process id line and the       *)
(* watchdog, resize() and pipe().                                          *)
(***************************************************************************)
\* errors.resizer-disabled.
ResizerDisabled == 302

\* The reader of pipe(): with init down the chunk is dropped and init is
\* raised, with init up the chunk is written to the surface.
ReadChunkDropsAll(init) == [init |-> init, out |-> IF init THEN "written"
                                                          ELSE "discarded"]

ReadChunk(init) == [init |-> TRUE, out |-> IF init THEN "written"
                                                   ELSE "discarded"]

\* resizer0.once("exit", () => { self.clearInterval(watchdog) }).
WatchdogAfterExitKept(watchdog) == watchdog

WatchdogAfterExit(watchdog) == FALSE

\* The constructor returns: resizerInitial is null without a Python
\* executable and a spawn in flight with one; the shell is to be spawned.
\* rz is this.resizer.
WinIoInit ==
    wio \in [python : BOOLEAN, conhost : BOOLEAN,
             resizer : {"none", "spawning"}, shell : {Pending},
             rz : {Pending}, pid : {"none"}, watchdog : {FALSE},
             lines : {<<>>}, resizes : {<<>>}, pipes : {<<>>}]
    /\ wio.resizer = IF wio.python THEN "spawning" ELSE "none"

WioUnchanged == UNCHANGED <<ux, rnd, cfg>> /\ IoFrame

\* A line on the resizer's stdin, with whether the resizer had exited when
\* the write was attempted.
WioLine(kind, data) ==
    [kind |-> kind, data |-> data, late |-> wio.resizer # "running"]

\* spawnPromise of the resizer settles.
WioResizerSpawn(ok) ==
    /\ wio.resizer = "spawning"
    /\ wio' = [wio EXCEPT !.resizer = IF ok THEN "running" ELSE "failed"]
    /\ WioUnchanged

\* The resizer process exits: an armed watchdog is cancelled.
WioResizerExit ==
    /\ wio.resizer = "running"
    /\ wio' = [wio EXCEPT !.resizer = "exited",
                          !.watchdog = WatchdogAfterExit(@)]
    /\ WioUnchanged

\* The shell's start-up (temp file, spawn) settles once resizerInitial has:
\* shell resolves, or it rejects after resizer?.kill() and this.resizer
\* rejects with it.  A spawned shell with no resizer resolves this.resizer
\* with null, one whose resizer failed to spawn rejects it.
WioShellStart(ok) ==
    /\ wio.shell = Pending
    /\ wio.resizer # "spawning"
    /\ wio' = IF ~ok
                 THEN [wio EXCEPT !.shell = Rejected(SpawnError),
                                  !.rz = Rejected(SpawnError),
                                  !.resizer = IF @ = "running" THEN "exited"
                                                               ELSE @]
              ELSE IF wio.resizer = "none"
                 THEN [wio EXCEPT !.shell = Resolved(0), !.rz = Resolved(0)]
              ELSE IF wio.resizer = "failed"
                 THEN [wio EXCEPT !.shell = Resolved(0),
                                  !.rz = Rejected(SpawnError)]
              ELSE [wio EXCEPT !.shell = Resolved(0), !.pid = "writing",
                               !.lines = Append(@, WioLine("pid", <<"7", "\n">>))]
    /\ WioUnchanged

\* writePromise(resizer0.stdin, pid) settles: on success the watchdog is
\* armed, the exit listener is registered and this.resizer resolves with the
\* helper; on failure the helper is killed and this.resizer rejects.  The
\* write to the stdin of a process that has exited fails.
WioPidWritten(ok) ==
    /\ wio.pid = "writing"
    /\ wio' = IF ok /\ wio.resizer = "running"
                 THEN [wio EXCEPT !.pid = "written", !.watchdog = TRUE,
                                  !.rz = Resolved(1)]
                 ELSE [wio EXCEPT !.pid = "failed",
                                  !.rz = Rejected(SpawnError),
                                  !.resizer = IF @ = "running" THEN "exited"
                                                               ELSE @]
    /\ WioUnchanged

\* The interval fires: writePromise(resizer0.stdin, "\n").
WioKeepAlive ==
    /\ wio.watchdog
    /\ Len(wio.lines) < MaxWinLines
    /\ wio' = [wio EXCEPT !.lines = Append(@, WioLine("keepalive", <<"\n">>))]
    /\ WioUnchanged

\* resize(columns, rows): await this.resizer, then the disabled error for
\* null, or the line on the resizer's stdin.
WioResize(columns, rows) ==
    /\ wio.rz # Pending
    /\ Len(wio.resizes) < MaxUnixCalls
    /\ Len(wio.lines) < MaxWinLines
    /\ LET call(st, err) == [columns |-> columns, rows |-> rows, st |-> st,
                             err |-> err, line |-> Len(wio.lines) + 1]
       IN  wio' = IF wio.rz.st = "rejected"
                     THEN [wio EXCEPT !.resizes =
                              Append(@, call("rejected", wio.rz.v))]
                  ELSE IF wio.rz = Resolved(0)
                     THEN [wio EXCEPT !.resizes =
                              Append(@, call("rejected", ResizerDisabled))]
                  ELSE [wio EXCEPT !.resizes = Append(@, call("written", 0)),
                                   !.lines = Append(@,
                                       WioLine("resize",
                                               ResizeLine(columns, rows)))]
    /\ WioUnchanged

\* pipe(terminal) with a spawned shell: init = !this.conhost, the surface is
\* cleared and the reader listens to stdout and stderr.
WioPipe ==
    /\ wio.shell = Resolved(0)
    /\ Len(wio.pipes) < MaxUnixCalls
    /\ wio' = [wio EXCEPT !.pipes =
                  Append(@, [init |-> ~wio.conhost, log |-> <<>>])]
    /\ WioUnchanged

\* A chunk arrives on stdout or stderr: every attached reader gets it.
WioChunk(stream) ==
    /\ wio.pipes # <<>>
    /\ \A i \in DOMAIN wio.pipes : Len(wio.pipes[i].log) < MaxChunks
    /\ wio' = [wio EXCEPT !.pipes =
                  [i \in DOMAIN wio.pipes |->
                      LET r == ReadChunk(wio.pipes[i].init)
                      IN  [init |-> r.init,
                           log |-> Append(wio.pipes[i].log,
                                          [stream |-> stream, out |-> r.out])]]]
    /\ WioUnchanged

NextWinIo ==
    \/ \E ok \in BOOLEAN : WioResizerSpawn(ok)
    \/ WioResizerExit
    \/ \E ok \in BOOLEAN : WioShellStart(ok)
    \/ \E ok \in BOOLEAN : WioPidWritten(ok)
    \/ WioKeepAlive
    \/ \E columns \in Geometry, rows \in Geometry : WioResize(columns, rows)
    \/ WioPipe
    \/ \E stream \in {"stdout", "stderr"} : WioChunk(stream)


(***************************************************************************)
(* The editor records of the developer console and the writers of          *)
(* syncBuffer (pseudoterminal.ts, lines 527-563, 596-601, 609-619).  A     *)
(* record is kept as its render-end row; CursoredText.info of              *)
(* sources/terminal/util wraps the buffer's text at the surface's width.   *)
(***************************************************************************)
\* this.#editors.get(terminal) is undefined.
NoRecord == -1

\* terminal.cols of the two surfaces.
Cols(t) == t

\* The rows a text takes at a width: every line of the text takes one row
\* and one more for each full width it exceeds.
RECURSIVE WrappedRows(_, _, _)
WrappedRows(text, cols, used) ==
    IF text = <<>> THEN 1
    ELSE IF Head(text) = "\n" THEN 1 + WrappedRows(Tail(text), cols, 0)
    ELSE IF used = cols THEN 1 + WrappedRows(Tail(text), cols, 1)
    ELSE WrappedRows(Tail(text), cols, used + 1)

\* info.rows of a writer: the text it read, wrapped at its surface's width.
WriterRowsFirstSurface(w) == WrappedRows(w.text, Cols(1), 0)

WriterRows(w) == WrappedRows(w.text, Cols(w.surf), 0)

RenderInit ==
    rnd = [editor |-> [t \in Surfaces |-> NoRecord], text |-> <<>>,
           writers |-> {}]

RndUnchanged == UNCHANGED <<ux, wio, cfg>> /\ IoFrame

WritersOn(t) == {w \in rnd.writers : w.surf = t}

\* write() sets a fresh record on a surface: renderEndY is 0.  write() and
\* syncBuffer run in sections of the lock, so no writer is in flight.
RndSetEditor(t) ==
    /\ WritersOn(t) = {}
    /\ rnd' = [rnd EXCEPT !.editor[t] = 0]
    /\ RndUnchanged

\* #setEditor(terminal) of the disposer addon: the record is deleted.
RndDeleteEditor(t) ==
    /\ rnd.editor[t] # NoRecord
    /\ rnd' = [rnd EXCEPT !.editor[t] = NoRecord]
    /\ RndUnchanged

\* buffer.write(data) settles.
RndBufferWrite(ch) ==
    /\ Len(rnd.text) < MaxRenderText
    /\ rnd' = [rnd EXCEPT !.text = BufferWrite(@, <<ch>>)]
    /\ RndUnchanged

\* A writer of syncBuffer starts: it reads its surface's record and the
\* buffer's value.  A section has at most the loop's redraw and the
\* continuation's in flight.
RndWriterStart(t) ==
    /\ Cardinality(WritersOn(t)) < 2
    /\ rnd' = [rnd EXCEPT !.writers =
                  @ \cup {[surf |-> t, text |-> rnd.text,
                           had |-> rnd.editor[t] # NoRecord]}]
    /\ RndUnchanged

\* The writer's terminal write settles: if (editor) editor.renderEndY =
\* info.rows - 1.  A record deleted meanwhile is not in the map any more.
RndWriterDone(w) ==
    /\ w \in rnd.writers
    /\ rnd' = [rnd EXCEPT !.writers = @ \ {w},
                          !.editor[w.surf] =
                              IF w.had /\ @ # NoRecord THEN WriterRows(w) - 1
                                                       ELSE @]
    /\ RndUnchanged

\* Every writer a run can have in flight.
AllWriters ==
    [surf : Surfaces,
     text : UNION {[1..n -> Chunks] : n \in 0..MaxRenderText},
     had : BOOLEAN]

NextRender ==
    \/ \E t \in Surfaces : RndSetEditor(t)
    \/ \E t \in Surfaces : RndDeleteEditor(t)
    \/ \E ch \in Chunks : RndBufferWrite(ch)
    \/ \E t \in Surfaces : RndWriterStart(t)
    \/ \E w \in AllWriters : RndWriterDone(w)


(***************************************************************************)
(* The settings tab (src/sources/settings.ts, lines 153-202 and 274-357;   *)
(* src/unnamed/part_004, lines 97-154 and 268-358; src/unnamed/part_003,   *)
(* lines 157-230 and 332-335): the hide-status-bar dropdown and the two    *)
(* timeout text fields, each with its reset button.  The helpers of        *)
(* part_003 come from ../ui/settings and are followed as settings.ts has   *)
(* them.                                                                   *)
(***************************************************************************)
\* NOTICE_NO_TIMEOUT of magic.js.
NOTICE_NO_TIMEOUT == 0

\* The three versions of the tab.
TabVersions == {"settings.ts", "part_004", "part_003"}

HIDE_STATUS_BAR_OPTIONS == {"never", "always", "focused", "running"}

\* The settings the modelled controls write, at their defaults.
DEFAULT_SETTINGS ==
    [errorNoticeTimeout |-> NOTICE_NO_TIMEOUT,
     hideStatusBar |-> "focused",
     noticeTimeout |-> 5]

\* What a user types into a timeout field.
TimeoutTexts == {"0", "3", "7", "", "abc"}

\* Number(value): the empty text is 0, a text that is no numeral is NaN.
ToNumber(text) ==
    CASE text = "0" -> [finite |-> TRUE, num |-> 0]
      [] text = "3" -> [finite |-> TRUE, num |-> 3]
      [] text = "7" -> [finite |-> TRUE, num |-> 7]
      [] text = "" -> [finite |-> TRUE, num |-> 0]
      [] OTHER -> [finite |-> FALSE, num |-> 0]

\* settings.noticeTimeout.toString(), over the numbers a run can store.
NumberToString(n) ==
    CASE n = 0 -> "0"
      [] n = 3 -> "3"
      [] n = 5 -> "5"
      [] n = 7 -> "7"

\* display(): every text field shows its setting again.
Displayed(settings) ==
    [noticeTimeout |-> NumberToString(settings.noticeTimeout),
     errorNoticeTimeout |-> NumberToString(settings.errorNoticeTimeout)]

SettingsInit ==
    \E v \in TabVersions :
        cfg = [version |-> v,
               settings |-> DEFAULT_SETTINGS,
               saved |-> DEFAULT_SETTINGS,
               shown |-> Displayed(DEFAULT_SETTINGS),
               last |-> "none"]

SettingsUnchanged == UNCHANGED <<ux, wio, rnd>> /\ IoFrame

\* activate of #linkSetting with a setter that accepted the value: the
\* setting is written, the component keeps the value it was given and the
\* settings are saved.
Linked(control, key, value, text) ==
    LET next == [cfg.settings EXCEPT ![key] = value]
    IN  cfg' = [cfg EXCEPT !.settings = next,
                           !.saved = next,
                           !.shown = IF key \in DOMAIN cfg.shown
                                     THEN [@ EXCEPT ![key] = text]
                                     ELSE @,
                           !.last = control]

\* The same with a setter that returned false: the component is set back to
\* the setting and nothing is saved.
LinkRefused(control, key) ==
    cfg' = [cfg EXCEPT !.shown =
                           [@ EXCEPT ![key] =
                                NumberToString(cfg.settings[key])],
                       !.last = control]

\* activate of #resetButton: the resetter runs, the settings are saved and
\* the tab is displayed again.
ResetTo(control, key) ==
    LET next == [cfg.settings EXCEPT ![key] = DEFAULT_SETTINGS[key]]
    IN  cfg' = [cfg EXCEPT !.settings = next,
                           !.saved = next,
                           !.shown = Displayed(next),
                           !.last = control]

\* The setting the resetter of the error-notice-timeout button writes: in
\* settings.ts and part_004 it is the one of the notice-timeout button.
ErrorNoticeTimeoutResetKey(version) ==
    IF version = "part_003" THEN "errorNoticeTimeout" ELSE "noticeTimeout"

HideStatusBarChange(value) ==
    /\ Linked("hide-status-bar", "hideStatusBar", value, value)
    /\ SettingsUnchanged

HideStatusBarReset ==
    /\ ResetTo("hide-status-bar.reset", "hideStatusBar")
    /\ SettingsUnchanged

\* #setTextToNumber refuses a text whose number is not finite.
SetTextToNumber(control, key, text) ==
    IF ToNumber(text).finite
    THEN Linked(control, key, ToNumber(text).num, text)
    ELSE LinkRefused(control, key)

NoticeTimeoutChange(text) ==
    /\ SetTextToNumber("notice-timeout", "noticeTimeout", text)
    /\ SettingsUnchanged

NoticeTimeoutReset ==
    /\ ResetTo("notice-timeout.reset", "noticeTimeout")
    /\ SettingsUnchanged

ErrorNoticeTimeoutChange(text) ==
    /\ SetTextToNumber("error-notice-timeout", "errorNoticeTimeout", text)
    /\ SettingsUnchanged

ErrorNoticeTimeoutReset ==
    /\ ResetTo("error-notice-timeout.reset",
               ErrorNoticeTimeoutResetKey(cfg.version))
    /\ SettingsUnchanged

NextSettings ==
    \/ \E value \in HIDE_STATUS_BAR_OPTIONS : HideStatusBarChange(value)
    \/ HideStatusBarReset
    \/ \E text \in TimeoutTexts : NoticeTimeoutChange(text)
    \/ NoticeTimeoutReset
    \/ \E text \in TimeoutTexts : ErrorNoticeTimeoutChange(text)
    \/ ErrorNoticeTimeoutReset

Init ==
    /\ RefInit /\ AdapterInit /\ ResizeInit /\ CloseInit /\ WinInit
    /\ SessInit /\ ConInit /\ EvalInit
    /\ UnixInit /\ WinIoInit /\ RenderInit /\ SettingsInit

\* The settings tab a specification does not follow is the one of
\* settings.ts.
SettingsIdle == cfg.version = "settings.ts"

\* The sessions a specification does not follow are configured with a
\* Python executable and without the console host.
IoIdle == ux.python /\ wio.python /\ ~wio.conhost /\ SettingsIdle

\* One specification per component; the resize version matters to
\* SpecResize only.
InitRef == Init /\ IoIdle /\ variant = 1 /\ winPython /\ sessKind = "console"
           /\ budget = MaxTasks

SpecRef == InitRef /\ [][NextRef]_vars

InitResize == Init /\ IoIdle /\ winPython /\ sessKind = "console"
              /\ budget = MaxTasks

SpecResize == InitResize /\ [][NextResize]_vars

\* The same with progress: an armed timer expires, #pty settles, a callback
\* waiting for #pty continues and a call of the session's resize settles.
FairResize ==
    /\ WF_vars(DebounceFire)
    /\ WF_vars(\E ok \in BOOLEAN : PtySettle(ok))
    /\ WF_vars(\E k \in 1..MaxResizeCalls : FirePtyReady(k))
    /\ WF_vars(\E k \in 1..MaxResizeCalls, ok \in BOOLEAN :
                  FireResizeDone(k, ok))

SpecResizeLive == SpecResize /\ FairResize

InitClose == Init /\ IoIdle /\ variant = 1 /\ winPython /\ sessKind = "console"
             /\ budget = MaxTasks

SpecClose == InitClose /\ [][NextClose]_vars

InitWin == Init /\ IoIdle /\ variant = 1 /\ sessKind = "console"
           /\ budget = MaxTasks

SpecWin == InitWin /\ [][NextWin]_vars

\* The in-process sessions, text and developer console.
InitSess == Init /\ IoIdle /\ variant = 1 /\ winPython /\ budget = MaxTasks

SpecSess == InitSess /\ [][NextSess]_vars

\* The same with progress inside the lock: a section that got the lock
\* starts, and every buffer operation and every surface write settles.
FairSess ==
    /\ WF_vars(SectionStart)
    /\ WF_vars(BufferWritten)
    /\ WF_vars(BufferCleared)
    /\ WF_vars(TerminalsWritten)
    /\ WF_vars(\E x \in AllRedraws : RedrawSettled(x))

\* The sections of every kind on a session that is neither killed nor loses
\* a surface.
NextSessLive ==
    \/ \E t \in Surfaces : PipeCall(t)
    \/ \E t \in Surfaces, ch \in Chunks : DataEvent(t, ch)
    \/ \E t \in Surfaces : EnterKey(t)
    \/ \E t \in Surfaces, key \in {"ArrowUp", "ArrowDown"} : ArrowKey(t, key)
    \/ \E t \in Surfaces : ResizeEvent(t)
    \/ LogEvent
    \/ SectionStart
    \/ BufferWritten
    \/ BufferCleared
    \/ TerminalsWritten
    \/ \E x \in AllRedraws : RedrawSettled(x)

SpecSessLive == InitSess /\ [][NextSessLive]_vars /\ FairSess

\* The developer console with one surface, fed commands, Enter and arrow
\* keys: the runs that fill the history and walk it.
HistChunks == {"a", "b"}

\* A command arrives as one chunk, while the edit buffer is empty.
CommandEvent(ch) == buffer = <<>> /\ DataEvent(1, ch)

NextHist ==
    \/ PipeCall(1)
    \/ \E ch \in HistChunks : CommandEvent(ch)
    \/ EnterKey(1)
    \/ \E key \in {"ArrowUp", "ArrowDown"} : ArrowKey(1, key)
    \/ SectionStart
    \/ BufferWritten
    \/ BufferCleared
    \/ TerminalsWritten
    \/ \E x \in AllRedraws : RedrawSettled(x)

InitHist ==
    /\ Init /\ IoIdle /\ variant = 1 /\ winPython
    /\ sessKind = "console" /\ budget = MaxHistTasks

SpecHist == InitHist /\ [][NextHist]_vars

\* The console on one surface with the evaluations of what is entered.
NextEval ==
    \/ PipeCall(1)
    \/ CommandEvent("a")
    \/ EnterKey(1)
    \/ SectionStart
    \/ BufferWritten
    \/ BufferCleared
    \/ TerminalsWritten
    \/ \E x \in AllRedraws : RedrawSettled(x)
    \/ \E c \in CodeClasses : EvalBegin(c)
    \/ \E i \in 1..MaxEvalTasks : EvalParse(i)
    \/ \E i \in 1..MaxEvalTasks : EvalFirstSettled(i)
    \/ \E i \in 1..MaxEvalTasks : EvalSecondSettled(i)

InitEval ==
    /\ Init /\ IoIdle /\ variant = 1 /\ winPython /\ sessKind = "console"
    /\ budget = MaxEvalTasks

SpecEval == InitEval /\ [][NextEval]_vars

InitOthers ==
    /\ variant = 1 /\ winPython /\ sessKind = "console" /\ budget = MaxTasks

InitUnix == Init /\ InitOthers /\ wio.python /\ ~wio.conhost /\ SettingsIdle

SpecUnix == InitUnix /\ [][NextUnix]_vars

InitWinIo == Init /\ InitOthers /\ ux.python /\ SettingsIdle

SpecWinIo == InitWinIo /\ [][NextWinIo]_vars

InitRender == Init /\ InitOthers /\ IoIdle

SpecRender == InitRender /\ [][NextRender]_vars

\* The settings tab, in each of its versions.
InitSettings ==
    Init /\ InitOthers /\ ux.python /\ wio.python /\ ~wio.conhost

SpecSettings == InitSettings /\ [][NextSettings]_vars

(***************************************************************************)
(* Claims about RefPsuedoterminal.                                         *)
(***************************************************************************)
KillIdx == {i \in DOMAIN opLog : opLog[i].op = "kill"}

RealIdx == {i \in KillIdx : opLog[i].real}

KillOrdinal(i) == Cardinality({j \in KillIdx : j <= i})

KillsOn(w) == Cardinality({i \in KillIdx : opLog[i].w = w})

\* The scenario of C1: every handle is killed at most once, and dup() is
\* only called while the session is still held (the counter is positive).
KilledOncePerHandle ==
    /\ \A w \in Wrappers : KillsOn(w) <= 1
    /\ \A i \in DOMAIN opLog : opLog[i].op = "dup" => opLog[i].after >= 2

AllHandlesKilled == \A w \in 1..nWrappers : KillsOn(w) = 1

\* C1 as stated: with N >= 1 dup() calls, the real kill fires exactly once and
\* is triggered by the Nth kill() call among the wrapper and its duplicates.
C1_RealKillAtNthKill ==
    (KilledOncePerHandle /\ NumDups >= 1) =>
        /\ Cardinality(RealIdx) <= 1
        /\ AllHandlesKilled => Cardinality(RealIdx) = 1
        /\ \A i \in RealIdx : KillOrdinal(i) = NumDups

\* C1 amended: with N >= 1 dup() calls there are N + 1 handles; the real kill
\* fires exactly once and is triggered by the (N + 1)th kill() call, the last
\* one, whatever the order of the kills.
C1_RealKillAtLastKill ==
    (KilledOncePerHandle /\ NumDups >= 1) =>
        /\ Cardinality(RealIdx) <= 1
        /\ AllHandlesKilled => Cardinality(RealIdx) = 1
        /\ \A i \in RealIdx : KillOrdinal(i) = NumDups + 1
        /\ dKills = Cardinality(RealIdx)

C1_Witness ==
    /\ KilledOncePerHandle
    /\ NumDups = 2
    /\ AllHandlesKilled
    /\ dKills = 1
    /\ opLog[Len(opLog)].w = 1
    /\ opLog[Len(opLog)].real

\* C2: the counter equals 1 + dups - kills after every call (no lost update),
\* and a kill() call invokes the underlying kill iff the counter after its
\* decrement is <= 0.
C2_CounterExact ==
    /\ ref = 1 + NumDups - NumKills
    /\ \A i \in DOMAIN opLog :
          /\ opLog[i].after =
                1 + Cardinality({j \in 1..i : opLog[j].op = "dup"})
                  - Cardinality({j \in 1..i : opLog[j].op = "kill"})
          /\ opLog[i].op = "kill" => (opLog[i].real <=> opLog[i].after <= 0)
    /\ dKills = Cardinality(RealIdx)

C2_Witness ==
    /\ Len(opLog) = 4
    /\ opLog[1].op = "kill" /\ opLog[1].real
    /\ opLog[2].op = "dup"
    /\ opLog[3].op = "dup"
    /\ opLog[4].op = "kill" /\ ~opLog[4].real
    /\ ref = 1

IsKillStep(w) ==
    /\ Len(opLog') = Len(opLog) + 1
    /\ opLog'[Len(opLog')].op = "kill"
    /\ opLog'[Len(opLog')].w = w

\* C3: a kill() that leaves the counter > 0 does not invoke the underlying
\* kill and settles nothing but its own wrapper's exit future, which its
\* continuation resolves with EXIT_SUCCESS; the underlying session's exit
\* future and the siblings' exit futures are left as they are.
C3_NonFinalKillResolvesOwnExit ==
    [][\A w \in Wrappers :
          /\ (IsKillStep(w) /\ ref' > 0) =>
                /\ dKills' = dKills
                /\ dExit' = dExit
                /\ wExit' = wExit
                /\ pendRes'[w] = pendRes[w] + 1
          /\ pendRes'[w] < pendRes[w] =>
                /\ wExit[w].st = "pending" => wExit'[w] = Resolved(EXIT_SUCCESS)
                /\ wExit[w].st # "pending" => wExit'[w] = wExit[w]
                /\ \A u \in Wrappers \ {w} : wExit'[u] = wExit[u]
                /\ dExit' = dExit
                /\ dKills' = dKills]_vars

C3_Witness ==
    /\ nWrappers = 3
    /\ wExit[2] = Resolved(EXIT_SUCCESS)
    /\ wExit[1].st = "pending"
    /\ wExit[3].st = "pending"
    /\ dExit.st = "pending"
    /\ dKills = 0
    /\ KillsOn(2) = 1
    /\ pendRes[2] = 0

(***************************************************************************)
(* Claims about the adapter's resize().                                    *)
(***************************************************************************)
InvocationsOf(k) == {i \in DOMAIN invocations : invocations[i].win = k}

RequestsOf(k) == {i \in DOMAIN rq : rq[i].win = k}

FiringDone(k) == firings[k].st \in {"ok", "failed"}

\* C4: the K >= 1 resize() calls of one debounce window cause exactly one
\* call of the session's resize, and all K promises settle identically: all
\* resolve if that call succeeds, all reject with the same error if it fails.
C4_OneInvocationSameOutcome ==
    \A k \in DOMAIN firings :
        /\ Cardinality(InvocationsOf(k)) <= 1
        /\ (FiringDone(k) /\ pty = "ok") => Cardinality(InvocationsOf(k)) = 1
        /\ \A i, j \in RequestsOf(k) :
              (rq[i].st # "pending" /\ rq[j].st # "pending") =>
                  (rq[i].st = rq[j].st /\ rq[i].err = rq[j].err)
        /\ FiringDone(k) =>
              \A i \in RequestsOf(k) :
                  rq[i].st = (IF firings[k].st = "ok" THEN "resolved"
                                                      ELSE "rejected")

\* The same statement for the version that keeps #resizePromises only.
C4_HoldsInFirstVersion == variant = 1 => C4_OneInvocationSameOutcome

(***************************************************************************)
(* Claims about the adapter's close().                                     *)
(***************************************************************************)
CloseRuns(i) ==
    /\ i \in DOMAIN closeCalls
    /\ closeCalls[i].st = "waiting"
    /\ closeCalls'[i].st # "waiting"
    /\ pty = "ok"

\* C8: close() with the session already exited disposes the surface without
\* calling kill; otherwise it calls kill on the process handle once and
\* disposes the surface iff kill reports success; when kill reports failure
\* it rejects with the could-not-kill error and leaves the surface as it was.
C8_CloseDisposesIffExitedOrKilled ==
    [][\A i \in 1..MaxCloseCalls :
          CloseRuns(i) =>
             /\ adExited =>
                   /\ shellKills' = shellKills
                   /\ disposed'
                   /\ closeCalls'[i].st = "resolved"
             /\ ~adExited =>
                   /\ shellKills' = shellKills + 1
                   /\ closeCalls'[i].killOk =>
                         disposed' /\ closeCalls'[i].st = "resolved"
                   /\ ~closeCalls'[i].killOk =>
                         /\ disposed' = disposed
                         /\ closeCalls'[i].st = "rejected"
                         /\ closeCalls'[i].err = CouldNotKill]_vars

C8_Witness ==
    /\ Len(closeCalls) = 2
    /\ closeCalls[1].st = "rejected" /\ closeCalls[1].killed
    /\ closeCalls[2].st = "resolved" /\ closeCalls[2].sawExited
    /\ shellKills = 1
    /\ disposed

(***************************************************************************)
(* Claims about the Windows session's temp file and exit value.            *)
(***************************************************************************)
WinAfterRead == winPc \in {"grace", "cleaning", "done"}

C10_ExitValueFromTempFile ==
    WinAfterRead =>
        LET parsed == ParseInt(Trim(winFile))
            fallback == IF winCon # NoCode THEN Code(winCon)
                        ELSE IF winSig # NoSignal THEN Sig(winSig)
                        ELSE NaN
        IN  /\ winExit.st = "resolved"
            /\ (winReadOk /\ parsed.k = "code") => winExit.v = parsed
            /\ (~winReadOk \/ parsed.k = "nan") => winExit.v = fallback
            /\ (winReadOk /\ winFile = <<"3", " ", "\r", "\n">>) =>
                  winExit.v = Code(3)
            /\ (winReadOk /\ winFile = <<"1", "3", " ", "\r", "\n">>) =>
                  winExit.v = Code(13)
            /\ (winReadOk /\ winFile = <<"-", "1", "\r", "\n">>) =>
                  winExit.v = Code(-1)
            /\ (winReadOk /\ winFile \in {<<>>, <<" ", "\r", "\n">>, <<"x", "3">>}
                  /\ winCon = NoCode) =>
                  winExit.v = (IF winSig = NoSignal THEN NaN ELSE Sig(winSig))

C10_Witness ==
    /\ winPc = "done"
    /\ winReadOk
    /\ winFile = <<"3", " ", "\r", "\n">>
    /\ winCon = 1
    /\ winExit = Resolved(Code(3))


\* The redraws in flight on surface t.
RedrawsOn(t) == {x \in syncs : t \in x.surfs}

\* C5: in every reachable state of the developer-console session at most one
\* buffer mutation and redraw sequence is in flight: a buffer operation or a
\* redraw is in flight only within the one section that holds the lock, and
\* no surface has two syncBuffer redraws in flight at the same time.
C5_OneSequenceInFlight ==
    /\ (csStage # "idle" \/ csWriting \/ syncs # {}) => lockHolder # NoSection
    /\ \A t \in Surfaces : Cardinality(RedrawsOn(t)) <= 1

\* C6: the sections waiting for the session lock never number more than
\* MAX_LOCK_PENDING; an acquisition attempted while the queue is full fails
\* in the same step, its section is neither queued nor started then or later
\* (every acquisition is failed, waiting, or started), and the step leaves
\* the edit buffer, the history and the history index as they were.
C6_FullQueueFailsFast ==
    /\ [](/\ Len(lockQueue) <= MAX_LOCK_PENDING
          /\ nTasks = nFailed + Len(lockQueue) + nStarted
                      + (IF csStage = "ready" THEN 1 ELSE 0))
    /\ [][/\ (nTasks' # nTasks /\ lockHolder # NoSection
              /\ Len(lockQueue) >= MAX_LOCK_PENDING)
             => nFailed' = nFailed + 1
          /\ nFailed' # nFailed
             => /\ Len(lockQueue) = MAX_LOCK_PENDING
                /\ UNCHANGED <<buffer, history, historyIndex, lockHolder,
                               lockQueue, csStage, csWriting, csArg, csThen,
                               syncs, nStarted>>]_vars

\* An acquisition has failed on a full queue behind a running section.
C6_Witness ==
    /\ nFailed > 0
    /\ Len(lockQueue) = MAX_LOCK_PENDING
    /\ lockHolder # NoSection

\* C7: pipe(surface) on a text or developer-console session whose exited
\* flag is set throws, and the call adds no surface to the attached list,
\* loads no disposer addon, installs no handler and asks for no lock; no
\* step of an exited session attaches anything.
C7_PipeAfterExitThrows ==
    [][exited
       => /\ lastPipe' # lastPipe
             => /\ lastPipe'.threw
                /\ UNCHANGED <<terminals, addons, handlers, lockHolder,
                               lockQueue, nTasks>>
          /\ terminals' \subseteq terminals
          /\ addons' = addons
          /\ handlers' \subseteq handlers]_vars

\* pipe() was called on a fresh surface of an exited session and threw.
C7_Witness ==
    /\ exited
    /\ lastPipe.threw
    /\ lastPipe.t \in Surfaces
    /\ lastPipe.t \notin (terminals \cup addons \cup handlers)


\* C11: every exit future settles at most once and keeps its value: once a
\* wrapper's exit future is settled (by its own non-final kill or by the
\* underlying session's exit), no later step, be it the session's exit with
\* another code or another kill(), changes it; the same for the session's
\* own exit future.
C11_ExitFutureSettlesOnce ==
    [][/\ \A w \in Wrappers :
             wExit[w].st # "pending" => wExit'[w] = wExit[w]
       /\ dExit.st # "pending" => dExit' = dExit]_vars

\* A wrapper resolved by its own kill has since seen the session exit with
\* another code: the exit's callback has run on it and its value stayed.
C11_Witness ==
    /\ dExit = Resolved(1)
    /\ \E w \in Wrappers :
          /\ wExit[w] = Resolved(EXIT_SUCCESS)
          /\ wPropagated[w]
          /\ KillsOn(w) > 0
          /\ pendRes[w] = 0


\* C12: kill() is idempotent on a handle: a kill() on a reference-counted
\* wrapper that was already killed has no effect of its own, that is, it
\* leaves the shared counter as it is and calls no kill on the underlying
\* session.
C12_SecondKillHasNoEffect ==
    [][\A w \in Wrappers :
          (IsKillStep(w) /\ KillsOn(w) > 0)
             => ref' = ref /\ dKills' = dKills]_vars


\* The open (last) history entry contains a line feed.
OpenEntryHasNewline ==
    \E i \in 1..Len(history[Len(history)]) : history[Len(history)][i] = "\n"

\* A navigation section gets the lock and runs up to its first await.
NavStarts ==
    /\ csStage = "ready"
    /\ lockHolder.kind = "nav"
    /\ nStarted' = nStarted + 1

\* The buffer operation of a navigation section settles.
NavWritten ==
    /\ csStage = "dual"
    /\ lockHolder.kind = "nav"
    /\ csWriting /\ ~csWriting'

\* The entry an index stands for, counted from the other end when negative.
EntryAt(idx) == history[(idx % Len(history)) + 1]

\* C13: with no newline in the open entry, ArrowUp / ArrowDown moves the
\* history index to a value congruent to index - 1 / index + 1 modulo the
\* length and within (-length, length), so that it wraps at both ends and
\* always stands for an entry, and the edit buffer becomes that entry, the
\* history staying as it is; on the history ["a", "b", ""] left by two
\* evaluations, ArrowUp, ArrowUp, ArrowDown show "b", "a", "b".
C13_NavigationWraps ==
    /\ [][(NavStarts /\ ~OpenEntryHasNewline) =>
             /\ historyIndex' % Len(history)
                   = (historyIndex + (IF lockHolder.arg = "ArrowUp"
                                         THEN -1 ELSE 1)) % Len(history)
             /\ historyIndex' > -Len(history)
             /\ historyIndex' < Len(history)
             /\ csArg' = EntryAt(historyIndex')
             /\ history' = history
             /\ (history = << <<"a">>, <<"b">>, <<>> >> /\ historyIndex = 2
                   /\ lockHolder.arg = "ArrowUp")
                => historyIndex' = 1 /\ csArg' = <<"b">>
             /\ (history = << <<"a">>, <<"b">>, <<>> >> /\ historyIndex = 1
                   /\ lockHolder.arg = "ArrowUp")
                => historyIndex' = 0 /\ csArg' = <<"a">>
             /\ (history = << <<"a">>, <<"b">>, <<>> >> /\ historyIndex = 0
                   /\ lockHolder.arg = "ArrowDown")
                => historyIndex' = 1 /\ csArg' = <<"b">>]_vars
    /\ [][NavWritten =>
             /\ buffer' = EntryAt(historyIndex)
             /\ UNCHANGED <<history, historyIndex>>]_vars

\* Two evaluations left ["a", "b", ""], three navigations followed, and the
\* buffer shows "b" at index 1.
C13_Witness ==
    /\ history = << <<"a">>, <<"b">>, <<>> >>
    /\ historyIndex = 1
    /\ buffer = <<"b">>
    /\ nTasks = 8 /\ nFailed = 0
    /\ lockHolder = NoSection


\* The navigations that hold the lock or wait for it.
NavCount ==
    (IF lockHolder.kind = "nav" THEN 1 ELSE 0)
    + Cardinality({i \in DOMAIN lockQueue : lockQueue[i].kind = "nav"})

\* C14: while the open history entry contains a newline, an ArrowUp or
\* ArrowDown press asks for no navigation, and a navigation that was queued
\* earlier and gets the lock now ends at once; either way the edit buffer,
\* the history and the history index stay as they are.  A navigation only
\* ever writes the buffer when the open entry has no newline.
C14_NewlineBlocksNavigation ==
    /\ []((lockHolder.kind = "nav" /\ csStage = "dual")
             => ~OpenEntryHasNewline)
    /\ [][OpenEntryHasNewline =>
             /\ NavCount' <= NavCount
             /\ NavStarts =>
                   /\ UNCHANGED <<buffer, history, historyIndex, csWriting,
                                  csArg, syncs>>
                   /\ csStage' # "dual"
                   /\ NavCount' = NavCount - 1]_vars

\* A navigation was queued behind an input chunk with a newline, got the
\* lock after the chunk was applied, and ended without a change.
C14_Witness ==
    /\ OpenEntryHasNewline
    /\ buffer = <<"\n">>
    /\ historyIndex = 0
    /\ block # {}
    /\ nTasks = 3 /\ nStarted = 3 /\ nFailed = 0
    /\ lockHolder = NoSection


\* The commit step of an evaluation: buffer.clear() has settled.
EvalCommits == csStage = "clear" /\ csStage' = "main"

\* C15: the commit step of an evaluation runs in the section that holds the
\* lock, empties the edit buffer, puts the text the buffer held in place of
\* the open history entry and appends a new empty open entry: the history
\* grows by exactly one, the entries before the open one stay, the
\* second-to-last entry is the evaluated code and the last one is empty.
C15_EvalCommit ==
    [][EvalCommits =>
          /\ lockHolder.kind = "eval" /\ lockHolder' = lockHolder
          /\ buffer' = <<>>
          /\ Len(history') = Len(history) + 1
          /\ \A i \in 1..(Len(history) - 1) : history'[i] = history[i]
          /\ history'[Len(history)] = buffer
          /\ history'[Len(history) + 1] = <<>>]_vars

\* "b" was committed after "a": the commit step has just run.
C15_Witness ==
    /\ lockHolder.kind = "eval"
    /\ csStage = "main"
    /\ history = << <<"a">>, <<"b">>, <<>> >>
    /\ buffer = <<>>


\* The buffer write of an input section settles: the chunk is applied.
InputApplied ==
    /\ csStage = "dual"
    /\ lockHolder.kind = "data"
    /\ csWriting /\ ~csWriting'

\* C16: the history is append-only: it is never empty, no step shortens it
\* or changes an entry other than the last (open) one, and when an input
\* chunk has been applied the last entry is the buffer's text.
C16_HistoryAppendOnly ==
    /\ [](Len(history) >= 1)
    /\ [][/\ Len(history') >= Len(history)
          /\ \A i \in 1..(Len(history) - 1) : history'[i] = history[i]
          /\ InputApplied =>
                /\ history'[Len(history')] = buffer'
                /\ Len(history') = Len(history)]_vars

\* An input chunk has been applied after a command was committed: the open
\* entry mirrors the buffer and the committed one stands.
C16_Witness ==
    /\ lockHolder.kind = "data"
    /\ csStage = "dual" /\ ~csWriting
    /\ history = << <<"a">>, <<"b">> >>
    /\ buffer = <<"b">>


\* The entries of a log at one level, and the entries that carry an error.
AtLevel(logs, type) == {k \in DOMAIN logs : logs[k].type = type}

CarryError(logs) == {k \in DOMAIN logs : logs[k].data = "error"}

\* The evaluations whose strategy 1 failed with a SyntaxError.
SyntaxFailed ==
    {i \in DOMAIN evals : /\ evals[i].cls.first = "syntax"
                          /\ evals[i].pc \in {"second", "done"}}

OtherErrorSettles(i) ==
    /\ i \in DOMAIN evals
    /\ evals[i].cls.first = "other"
    /\ evals[i].pc = "first"
    /\ evals'[i].pc # "first"

AfterEcho(i) == Tail(evals[i].logs)

\* C19: an evaluated code whose last statement is an expression logs the
\* value of the expression ("1+1" logs 2); an evaluated code whose last
\* statement is not an expression ("let x = 1") logs nothing.
C19_OnlyExpressionsLog ==
    \A i \in DOMAIN evals :
        evals[i].pc = "done" =>
            /\ evals[i].cls = OnePlusOne =>
                  AfterEcho(i) = <<LogEntry("info", "2")>>
            /\ evals[i].cls = LetX => AfterEcho(i) = <<>>


\* C20: the teardown of the developer console releases everything: a
\* disposed surface is neither in the attached list nor in the editor map
\* (its editor record, which owns the render-start marker, is closed when it
\* leaves the map); once the exit's teardown has run the session does not
\* listen to the log, the editor map is empty and no surface has live
\* handlers.
C20_TeardownReleases ==
    /\ \A t \in tDisposed : t \notin terminals /\ t \notin editors
    /\ tornDown => /\ ~listening
                   /\ editors = {}
                   /\ handlers = {}
                   /\ terminals = {}


\* C27: every resize() request that is settled is settled by the firing of
\* its own debounce window, the first firing after the request was made, and
\* so never by an invocation that had started before the request.
C27_SettledByNextFiring ==
    \A i \in DOMAIN rq :
        (rq[i].win > 0 /\ rq[i].st # "pending") => rq[i].by = rq[i].win


\* C28: after the commit step of an evaluation the history index is the
\* index (from 0) of the last entry of the history, the new open entry.
C28_IndexAtOpenEntry ==
    [][EvalCommits =>
          /\ historyIndex' = Len(history') - 1
          /\ history'[historyIndex' + 1] = <<>>]_vars

\* C28 as stated: after the commit step the history index is past the end of
\* the history, the index of no entry.
C28_IndexPastEnd ==
    [][EvalCommits => historyIndex' \notin 0..(Len(history') - 1)]_vars

\* The second command has been committed: the history has three entries and
\* the index is 2.
C28_Witness ==
    /\ lockHolder.kind = "eval"
    /\ csStage = "main"
    /\ Len(history) = 3
    /\ history[1] = <<"b">>
    /\ historyIndex = 2


\* The section of an input chunk is running.
InDataSection == lockHolder.kind = "data" /\ csStage = "dual"

C21_NoPythonRejects ==
    ~ux.python =>
        /\ ~ux.threw
        /\ ux.shell \in {Pending, Rejected(NoPythonError)}
        /\ ux.exit = ux.shell
        /\ \A i \in DOMAIN ux.pipes :
              LET p == ux.pipes[i]
              IN  /\ p.st \in {"awaitShell", "rejected"}
                  /\ p.st = "rejected" => p.err = NoPythonError
                  /\ ux.shell # Pending => p.st # "clearing"
                  /\ ~p.cleared /\ ~p.out /\ ~p.errl /\ ~p.writer

\* Without a Python executable the spawn has failed and a pipe() call has
\* been rejected.
C21_Witness ==
    /\ ~ux.python
    /\ ux.exit = Rejected(NoPythonError)
    /\ \E i \in DOMAIN ux.pipes : ux.pipes[i].st = "rejected"


\* The writes resize() call k made.
UxWritesBy(k) == {j \in DOMAIN ux.writes : ux.writes[j].by = k}

\* C22: a resize(columns, rows) on a Unix session whose process was spawned
\* makes exactly one write, of the line "<columns>x<rows>\n" to the fourth
\* stdio stream, and none to stdin or stdout; resize(80, 24) writes "80x24\n".
C22_ResizeWritesControlLine ==
    \A k \in DOMAIN ux.resizes :
        LET r == ux.resizes[k]
        IN  IF r.st = "written"
               THEN /\ Cardinality(UxWritesBy(k)) = 1
                    /\ \A j \in UxWritesBy(k) :
                          /\ ux.writes[j].stream = "cmdio"
                          /\ ux.writes[j].data =
                                ToDigits(r.columns) \o <<"x">>
                                \o ToDigits(r.rows) \o <<"\n">>
                          /\ (r.columns = 80 /\ r.rows = 24) =>
                                ux.writes[j].data =
                                   <<"8", "0", "x", "2", "4", "\n">>
               ELSE UxWritesBy(k) = {}

\* resize(80, 24) was called after the surface's input had been written to
\* stdin.
C22_Witness ==
    /\ Len(ux.writes) = 2
    /\ ux.writes[1].stream = "stdin"
    /\ ux.writes[2].stream = "cmdio"
    /\ ux.resizes = <<[columns |-> 80, rows |-> 24, st |-> "written"]>>


\* C24: once a Unix session has exited and the finally of a pipe() call has
\* run, none of the listeners that call installed is left: the surface's
\* input subscription and the data listeners on stdout and stderr.
C24_ListenersRemovedOnExit ==
    \A i \in DOMAIN ux.pipes :
        ux.pipes[i].fin =>
            ~ux.pipes[i].writer /\ ~ux.pipes[i].out /\ ~ux.pipes[i].errl

(***************************************************************************)
(* Claims about the streams of WindowsPseudoterminal.                      *)
(***************************************************************************)
WioResizeLines == {j \in DOMAIN wio.lines : wio.lines[j].kind = "resize"}

WioWritten == {k \in DOMAIN wio.resizes : wio.resizes[k].st = "written"}

\* C23: on a Windows session whose shell was spawned and that has no resizer
\* helper configured, resize fails with the resizer-disabled error; without
\* a helper configured nothing is ever written to a stream by resize; a
\* resize that does not fail has a helper and writes exactly the line
\* "<columns>x<rows>\n" to the helper's stdin, and a resize on a session
\* whose helper is ready does not fail.
C23_ResizeNeedsResizer ==
    /\ ~wio.python => wio.lines = <<>>
    /\ Cardinality(WioResizeLines) = Cardinality(WioWritten)
    /\ \A k \in DOMAIN wio.resizes :
          LET r == wio.resizes[k]
          IN  /\ (~wio.python /\ wio.shell = Resolved(0)) =>
                    (r.st = "rejected" /\ r.err = ResizerDisabled)
              /\ wio.rz = Resolved(1) => r.st = "written"
              /\ r.st = "written" =>
                    /\ wio.python
                    /\ wio.lines[r.line].kind = "resize"
                    /\ wio.lines[r.line].data =
                          ToDigits(r.columns) \o <<"x">>
                          \o ToDigits(r.rows) \o <<"\n">>

\* C23 as stated: with no resizer helper configured every resize fails with
\* the resizer-disabled error.
C23_DisabledWheneverNoResizer ==
    ~wio.python =>
        \A k \in DOMAIN wio.resizes :
            wio.resizes[k].st = "rejected"
            /\ wio.resizes[k].err = ResizerDisabled

\* resize(80, 24) failed with the resizer-disabled error on a session with a
\* shell and no helper.
C23_Witness ==
    /\ ~wio.python
    /\ wio.shell = Resolved(0)
    /\ \E k \in DOMAIN wio.resizes :
          /\ wio.resizes[k].err = ResizerDisabled
          /\ wio.resizes[k].columns = 80 /\ wio.resizes[k].rows = 24


\* C29: for each pipe() call on a Windows session, with the console host
\* active the first chunk its reader receives, from stdout or stderr, is
\* discarded and every later one is written to the surface; with the console
\* host inactive every chunk is written.
C29_FirstChunkDiscardedOnce ==
    \A i \in DOMAIN wio.pipes :
        \A j \in DOMAIN wio.pipes[i].log :
            wio.pipes[i].log[j].out =
                IF wio.conhost /\ j = 1 THEN "discarded" ELSE "written"

\* With the console host active a pipe() call has received a chunk on stderr
\* and then one on stdout.
C29_Witness ==
    /\ wio.conhost
    /\ \E i \in DOMAIN wio.pipes :
          /\ Len(wio.pipes[i].log) = 2
          /\ wio.pipes[i].log[1].stream = "stderr"
          /\ wio.pipes[i].log[2].stream = "stdout"


\* C30: on the resizer's stdin the process id line comes first: a keep-alive
\* line or a resize line is written only after the write of the process id
\* line has completed; the watchdog is not armed while the resizer is not
\* running, and no keep-alive write is attempted after the resizer exited.
C30_PidFirstWatchdogCancelled ==
    /\ wio.lines # <<>> => wio.lines[1].kind = "pid"
    /\ \A j \in DOMAIN wio.lines :
          /\ j > 1 => wio.lines[j].kind # "pid" /\ wio.pid = "written"
          /\ wio.lines[j].kind = "keepalive" => ~wio.lines[j].late
    /\ wio.resizer # "running" => ~wio.watchdog

\* A keep-alive line followed the process id line and the resizer has exited
\* since.
C30_Witness ==
    /\ Len(wio.lines) = 2
    /\ wio.lines[2].kind = "keepalive"
    /\ wio.resizer = "exited"

C31_RealKillOnlyWhenAllKilled ==
    [][dKills' > dKills =>
          \A w \in 1..nWrappers :
              \E i \in DOMAIN opLog' :
                  opLog'[i].op = "kill" /\ opLog'[i].w = w]_vars


(***************************************************************************)
(* Further claims about PseudoPseudoterminal and the developer console.    *)
(***************************************************************************)
\* C32: once kill() on a text or developer-console session has completed,
\* that is, once it has resolved the session's exit future, every pipe()
\* call throws and adds no surface to the attached list.
C32_NoPipeAfterKill ==
    [][sExit =>
          /\ lastPipe' # lastPipe => lastPipe'.threw
          /\ terminals' \subseteq terminals]_vars


\* C33: whenever no section holds the lock and none waits for it, every
\* surface with an entry in the editor map is in the session's list of
\* attached surfaces and has not been disposed.
C33_EditorsAttachedWhenQuiet ==
    (lockHolder = NoSection /\ lockQueue = <<>>) =>
        editors \subseteq (terminals \ tDisposed)


\* C34: for each Enter the entered code starts to run at most once: an
\* evaluation that ran its code as the wrapped script of strategy 1 does not
\* run it again as it is in strategy 2, whatever error the first run threw.
C34_CodeRunsAtMostOnce ==
    \A i \in DOMAIN evals : evals[i].runs <= 1


(***************************************************************************)
(* Further claims about the adapter.                                       *)
(***************************************************************************)
\* The adapter's resize() call i has been made; it has settled.
ResizeRequested(i) == i \in DOMAIN rq

ResizeSettled(i) == i \in DOMAIN rq /\ rq[i].st # "pending"

\* C35: every call of the adapter's resize() eventually settles: its
\* promise does not stay pending for ever, whether or not the fit addon
\* proposed dimensions and whether the session's resize succeeds or fails.
C35_ResizeEventuallySettles ==
    \A i \in 1..MaxResizeCalls : ResizeRequested(i) ~> ResizeSettled(i)

\* The same for the calls for which the fit addon proposed dimensions.
C35_SettlesWithDimensions ==
    \A i \in 1..MaxResizeCalls :
        (ResizeRequested(i) /\ rq[i].win > 0) ~> ResizeSettled(i)

\* The same for the version built on asyncDebounce.
C35_SettlesInSecondVersion ==
    \A i \in 1..MaxResizeCalls :
        (ResizeRequested(i) /\ variant = 2) ~> ResizeSettled(i)


\* C36: on an adapter whose session failed to start (#pty rejected), a
\* close() call that has run has resolved and the surface is disposed.
C36_CloseDisposesAfterFailedStart ==
    pty = "failed" =>
        \A i \in DOMAIN closeCalls :
            closeCalls[i].st # "waiting" =>
                (closeCalls[i].st = "resolved" /\ disposed)


(***************************************************************************)
(* Further claims about WindowsPseudoterminal.                             *)
(***************************************************************************)
\* The start-up of the Windows session is still under way.
WinStarting == winPc \in {"resizer", "tmpFile", "spawn", "spawnCleanup"}

SectionsOf(holder, queue, t, kinds) ==
    Cardinality({i \in DOMAIN queue :
                    queue[i].surf = t /\ queue[i].kind \in kinds})
    + (IF holder.surf = t /\ holder.kind \in kinds THEN 1 ELSE 0)

\* A section of one of the kinds is accepted by the lock for surface t.
SectionAccepted(t, kinds) ==
    /\ nTasks' = nTasks + 1
    /\ nFailed' = nFailed
    /\ SectionsOf(lockHolder', lockQueue', t, kinds)
          > SectionsOf(lockHolder, lockQueue, t, kinds)

LockAtRest ==
    /\ lockHolder = NoSection
    /\ lockQueue = <<>>
    /\ csStage = "idle"
    /\ syncs = {}
    /\ ~csWriting
    /\ nStarted = nTasks - nFailed

\* C39: when every buffer operation and every surface write settles, every
\* section that holds the lock or waits for it finishes and releases it:
\* whenever the lock is held it is at rest again later, with every accepted
\* acquisition served.
C39_SectionsFinish == (lockHolder # NoSection) ~> LockAtRest

\* Sections of every kind have been accepted, one of them from the queue,
\* and all have finished.
C39_Witness ==
    /\ LockAtRest
    /\ nTasks = MaxTasks
    /\ nFailed = 0
    /\ nStarted = MaxTasks
    /\ buffer # <<>>
    /\ Len(history) = 2

(***************************************************************************)
(* Claims about the settings tab.                                          *)
(***************************************************************************)
\* C40: activating the reset button of the error-notice-timeout setting
\* sets errorNoticeTimeout to its default value and leaves every other
\* setting, noticeTimeout included, as it was.
C40_ResetErrorNoticeTimeout ==
    [][cfg'.last = "error-notice-timeout.reset"
       => cfg'.settings =
              [cfg.settings EXCEPT
                  !.errorNoticeTimeout = DEFAULT_SETTINGS.errorNoticeTimeout]
      ]_vars

====
